---- MODULE Spec2Model ----
(***************************************************************************)
(* A model of features/OmeroTablesFeatureStore.py: the LRU handle cache,   *)
(* the chunked table read, the FeatureTable store (one handle on one       *)
(* remote OMERO table) and the FeatureTableManager.                        *)
(*                                                                         *)
(* Specifications:                                                         *)
(*   SpecLRU    LRUCache / LRUClosableCache under get, insert,             *)
(*              remove_oldest and close                                    *)
(*   SpecChunk  FeatureTable.chunked_table_read on bounded inputs          *)
(*   Spec       one FeatureTable handle on one remote table: open, close,  *)
(*              get_table, store, store_pending, store_flush, fetch,       *)
(*              delete                                                     *)
(*   SpecData   the writes and reads of a handle that stays open, over     *)
(*              every metadata key                                         *)
(*   SpecMgr    FeatureTableManager.create / get / close and the handles   *)
(*              it returns                                                 *)
(*   SpecOpen   open_or_create_table with and without schema arguments,    *)
(*              over the remote files of one name                          *)
(*   SpecRow    one FeatureRow under its constructor and setters           *)
(*   SpecStore  the stores of a handle that stays open                     *)
(*   SpecEvict  the cache of SpecLRU when close() of an evicted value may  *)
(*              raise                                                      *)
(*   SpecRace   two handles on one remote table, each in a                 *)
(*              store(K, v, replace=True)                                  *)
(*   SpecKey    replacing stores and fetches by a full metadata key        *)
(*   SpecMgrOwn SpecMgr from a state where the caller owns a table         *)
(* Every specification constrains all the variables; the ones it does not  *)
(* use keep their initial value.                                           *)
(***************************************************************************)
EXTENDS Integers, Sequences, FiniteSets, TLC

VARIABLES
    lru,        \* LRUCache: [maxsize, cache: key -> [v, c], counter]
    closable,   \* TRUE: the cache is an LRUClosableCache
    closes,     \* value -> number of close() calls the value received
    nextVal,    \* the next fresh value object handed to insert
    recency,    \* history: the cached keys, least recently accessed first
    overwritten,\* history: values replaced by an insert on a present key
    lruLast,    \* the last cache operation, what it returned, whether it raised
    ckIn,       \* chunked_table_read: [offsets, chunk_size]
    ckOut,      \* chunked_table_read: [done, isNone, values, reads]
    headers,    \* remote table: the column headers (the schema)
    rows,       \* remote table: the rows, each a tuple with one cell per column
    fileExists, \* remote: the table's OriginalFile exists
    fileOwner,  \* remote: the owner id of the table's OriginalFile
    aclEdit,    \* remote: getPermissions().canEdit() of the file for the caller
    anns,       \* remote: annotation links and file annotations on the file
    userId,     \* the caller's id (PermissionsHandler.context.userId)
    ft,         \* the FeatureTable handle's fields
    lastOp,     \* the last FeatureTable operation, its outcome and remote calls
    files,      \* manager: the table files that exist remotely [id, name, owner]
    nextFile,   \* manager: the id of the next table file created
    fss,        \* FeatureTableManager.fss, an LRUClosableCache of handle ids
    handles,    \* manager: the FeatureTable objects constructed, by id
    mgrLast,    \* the last manager or handle operation and its outcome
    fr,         \* a FeatureRow object's fields
    frLast,     \* the last FeatureRow operation and its outcome
    writers     \* two clients inside store(): per writer, its position and
                \* the offsets its query returned

lruVars == <<lru, closable, closes, nextVal, recency, overwritten, lruLast>>
ckVars == <<ckIn, ckOut>>
remoteVars == <<headers, rows, fileExists, fileOwner, aclEdit, anns>>
ftVars == <<userId, ft, lastOp>>
mgrVars == <<files, nextFile, fss, handles, mgrLast>>
rowVars == <<fr, frLast>>
raceVars == <<writers>>

vars == <<lruVars, ckVars, remoteVars, ftVars, mgrVars, rowVars, raceVars>>

----------------------------------------------------------------------------
(* Bounds of the model *)

MaxSize == 2        \* largest cache capacity explored
MaxVals == 4        \* number of value objects ever inserted
MaxCounter == 7     \* cap of the access counter (get + insert calls)

Keys == {"k1", "k2", "k3"}
Values == 1..MaxVals
None == "None"
Miss == 0            \* the miss sentinel of LRUCache.get (values are 1..MaxVals)

----------------------------------------------------------------------------
(* Helpers *)

Restrict(f, S) == [x \in S |-> f[x]]

Range(s) == {s[i] : i \in DOMAIN s}

RECURSIVE Without(_, _)
Without(s, x) ==
    IF s = <<>> THEN <<>>
    ELSE IF Head(s) = x THEN Without(Tail(s), x)
    ELSE <<Head(s)>> \o Without(Tail(s), x)

----------------------------------------------------------------------------
(* LRUCache, LRUClosableCache *)

\* LRUCache.__init__
LRUCacheInit(size) ==
    [maxsize |-> size, cache |-> [k \in {} |-> 0], counter |-> 0]

\* LRUCache.__len__
LRULen(c) == Cardinality(DOMAIN c.cache)

\* a plausible bug: a hit leaves the entry's stamp as it was
LRUGet_NoStamp(c, key) == c

\* LRUCache.get: the cache after get(key); a hit bumps the counter and stamps
\* the entry, a miss changes nothing
LRUGet(c, key) ==
    IF key \in DOMAIN c.cache
    THEN [c EXCEPT !.counter = c.counter + 1,
                   !.cache[key].c = c.counter + 1]
    ELSE c

\* LRUCache.get: the value returned
LRUGetValue(c, key, miss) ==
    IF key \in DOMAIN c.cache THEN c.cache[key].v ELSE miss

\* a plausible bug: evict the entry with the largest stamp
NewestKey(c) ==
    CHOOSE k \in DOMAIN c.cache :
        \A j \in DOMAIN c.cache : c.cache[k].c >= c.cache[j].c

\* LRUCache.remove_oldest: min(..., key=lambda kv: kv[1][1])
OldestKey(c) ==
    CHOOSE k \in DOMAIN c.cache :
        \A j \in DOMAIN c.cache : c.cache[k].c <= c.cache[j].c

\* LRUCache.remove_oldest: the cache after self.cache.pop(mink)
LRURemoveOldest(c) ==
    [c EXCEPT !.cache = Restrict(c.cache, DOMAIN c.cache \ {OldestKey(c)})]

\* insert that drops the oldest entry whenever the cache is full
Evicts_AtCapacity(c, key) ==
    LRULen(c) >= c.maxsize

\* a plausible bug: the oldest entry goes only once the cache is over its
\* capacity
Evicts_OverCapacity(c, key) ==
    key \notin DOMAIN c.cache /\ LRULen(c) > c.maxsize

\* LRUCache.insert: the condition under which remove_oldest is called
Evicts(c, key) ==
    key \notin DOMAIN c.cache /\ LRULen(c) >= c.maxsize

\* LRUCache.insert, after the eviction: counter += 1; cache[key] = [value, counter]
LRUPut(c, key, value) ==
    [c EXCEPT !.counter = c.counter + 1,
              !.cache = [k \in DOMAIN c.cache \cup {key} |->
                            IF k = key
                            THEN [v |-> value, c |-> c.counter + 1]
                            ELSE c.cache[k]]]

\* LRUCache.insert
LRUInsert(c, key, value) ==
    LRUPut(IF Evicts(c, key) THEN LRURemoveOldest(c) ELSE c, key, value)

\* a plausible bug: the evicted value is dropped without close()
RemoveOldestClosed_NoClose(c, isClosable) == <<>>

\* LRUClosableCache.remove_oldest: the values it calls close() on (none in
\* the plain LRUCache)
RemoveOldestClosed(c, isClosable) ==
    IF isClosable THEN <<c.cache[OldestKey(c)].v>> ELSE <<>>

\* a plausible bug: an insert on a present key closes the value it replaces
InsertClosed_Replaced(c, key, isClosable) ==
    IF key \in DOMAIN c.cache
    THEN (IF isClosable THEN <<c.cache[key].v>> ELSE <<>>)
    ELSE IF Evicts(c, key) THEN RemoveOldestClosed(c, isClosable) ELSE <<>>

\* a plausible bug: a new key closes the oldest value of a cache that has
\* room left
InsertClosed_BelowCapacity(c, key, isClosable) ==
    IF key \notin DOMAIN c.cache /\ DOMAIN c.cache # {}
    THEN RemoveOldestClosed(c, isClosable) ELSE <<>>

\* LRUCache.insert: the values closed by the remove_oldest it may call
InsertClosed(c, key, isClosable) ==
    IF Evicts(c, key) THEN RemoveOldestClosed(c, isClosable) ELSE <<>>

\* LRUClosableCache.close: while self.cache: self.remove_oldest()
RECURSIVE CloseAllClosed(_)
CloseAllClosed(c) ==
    IF DOMAIN c.cache = {} THEN <<>>
    ELSE RemoveOldestClosed(c, TRUE) \o CloseAllClosed(LRURemoveOldest(c))

RECURSIVE CloseAll(_)
CloseAll(c) ==
    IF DOMAIN c.cache = {} THEN c ELSE CloseAll(LRURemoveOldest(c))

\* close() called once on each value of the sequence vs
CloseValues(cl, vs) ==
    [v \in DOMAIN cl |-> cl[v] + Cardinality({i \in DOMAIN vs : vs[i] = v})]

----------------------------------------------------------------------------
(* Values, columns and the remote table (the OMERO.tables service)          *)
(*                                                                         *)
(* A Python value is a tagged record: I(12) an integer, S("aa") a string,  *)
(* NoneV the None object, so that values of different types compare        *)
(* unequal. A feature vector is a tuple of numbers.                        *)

I(n) == [int |-> n]
S(t) == [str |-> t]
NoneV == [none |-> TRUE]

IsInt(v) == DOMAIN v = {"int"}
IsStr(v) == DOMAIN v = {"str"}

\* omero.grid columns as new_table builds them: the metadata columns, then
\* one DoubleArrayColumn named by the comma-joined feature names
LongColumn(name) == [type |-> "Long", name |-> name, size |-> 0]
StringColumn(name, size) == [type |-> "String", name |-> name, size |-> size]
DoubleArrayColumn(name, size) ==
    [type |-> "DoubleArray", name |-> name, size |-> size]

\* the condition text of one value, '%s' % value: a number prints as a
\* numeric literal, a string prints bare (a word, no quotes), None prints
\* as the word None
FormatValue(v) ==
    IF IsInt(v) THEN [num |-> v.int]
    ELSE IF IsStr(v) THEN [word |-> v.str]
    ELSE [word |-> "None"]

\* '(%s==%s)' % kv
Clause(name, v) == [col |-> name, tok |-> FormatValue(v)]

\* the remote service: the column a condition names
ColumnOf(hdrs, name) ==
    CHOOSE i \in 1..Len(hdrs) : hdrs[i].name = name

\* the remote service parses a clause: the column exists, a numeric literal
\* is compared with a Long column and a string literal with a String column;
\* a bare word is a name, not a value, and names nothing the query defines
ClauseValid(hdrs, cl) ==
    /\ \E i \in 1..Len(hdrs) : hdrs[i].name = cl.col
    /\ \/ DOMAIN cl.tok = {"num"} /\ hdrs[ColumnOf(hdrs, cl.col)].type = "Long"
       \/ DOMAIN cl.tok = {"strlit"}
            /\ hdrs[ColumnOf(hdrs, cl.col)].type = "String"

ConditionValid(hdrs, conds) ==
    \A n \in 1..Len(conds) : ClauseValid(hdrs, conds[n])

\* the value a literal denotes
TokValue(tok) ==
    IF DOMAIN tok = {"num"} THEN I(tok.num) ELSE S(tok.strlit)

RowMatches(hdrs, row, conds) ==
    \A n \in 1..Len(conds) :
        row[ColumnOf(hdrs, conds[n].col)] = TokValue(conds[n].tok)

\* table.getWhereList(conditions, {}, 0, nrows, 0): the offsets (from 0) of
\* the matching rows in ascending order
RECURSIVE WhereFrom(_, _, _, _)
WhereFrom(hdrs, tbl, conds, o) ==
    IF o >= Len(tbl) THEN <<>>
    ELSE (IF RowMatches(hdrs, tbl[o + 1], conds) THEN <<o>> ELSE <<>>)
         \o WhereFrom(hdrs, tbl, conds, o + 1)

GetWhereList(hdrs, tbl, conds) == WhereFrom(hdrs, tbl, conds, 0)

\* range(n)
RangeList(n) == [i \in 1..n |-> i - 1]

\* max(offsets)
RECURSIVE MaxOf(_)
MaxOf(s) ==
    IF Len(s) = 1 THEN s[1]
    ELSE IF s[1] >= MaxOf(Tail(s)) THEN s[1] ELSE MaxOf(Tail(s))

\* the remote service accepts column data: one value list per column, all of
\* one length, every metadata cell of its column's type
CellValid(col, v) ==
    IF col.type = "Long" THEN IsInt(v)
    ELSE IF col.type = "String" THEN IsStr(v)
    ELSE TRUE

DataValid(hdrs, colvals) ==
    /\ Len(colvals) = Len(hdrs)
    /\ \A i \in 1..Len(hdrs) :
          /\ Len(colvals[i]) = Len(colvals[1])
          /\ \A j \in 1..Len(colvals[i]) : CellValid(hdrs[i], colvals[i][j])

\* the rows that column data holds: row j takes the j-th value of every column
RowsOf(colvals) ==
    [j \in 1..Len(colvals[1]) |-> [i \in 1..Len(colvals) |-> colvals[i][j]]]

\* a plausible bug: the bulk append writes the buffered rows last first
AddData_Reversed(tbl, colvals) ==
    tbl \o [j \in 1..Len(colvals[1]) |->
               RowsOf(colvals)[Len(colvals[1]) + 1 - j]]

\* table.addData(cols): the rows are appended
AddData(tbl, colvals) == tbl \o RowsOf(colvals)

\* a plausible bug: the update adds the row instead of overwriting one
Update_Appends(tbl, offset, colvals) == tbl \o RowsOf(colvals)

\* table.update(Data(rowNumbers=[offset], columns=cols))
Update(tbl, offset, colvals) ==
    [tbl EXCEPT ![offset + 1] = RowsOf(colvals)[1]]

\* table.readCoordinates(offsets).columns: per column, the values at the offsets
ReadCoordinates(hdrs, tbl, offsets) ==
    [i \in 1..Len(hdrs) |->
        [j \in 1..Len(offsets) |-> tbl[offsets[j] + 1][i]]]

----------------------------------------------------------------------------
(* FeatureTable: chunked reads *)

Min(a, b) == IF a <= b THEN a ELSE b

\* offsets[n:(n + chunk_size)]
Slice(offsets, n, chunk_size) ==
    SubSeq(offsets, n + 1, Min(n + chunk_size, Len(offsets)))

\* a plausible bug: a later chunk replaces the values read so far
ExtendValues_Overwrite(acc, data) ==
    [isNone |-> FALSE, values |-> data]

\* chunked_table_read, the loop body's accumulation: the first chunk's
\* column values, then v.extend(c.values) per column
ExtendValues(acc, data) ==
    IF acc.isNone
    THEN [isNone |-> FALSE, values |-> data]
    ELSE [isNone |-> FALSE,
          values |-> [i \in 1..Len(data) |-> acc.values[i] \o data[i]]]

\* chunked_table_read, for n in xrange(0, len(offsets), chunk_size) from n on;
\* reads lists the offset slices passed to readCoordinates
RECURSIVE ChunkLoop(_, _, _, _, _, _)
ChunkLoop(hdrs, tbl, offsets, chunk_size, n, acc) ==
    IF n >= Len(offsets) THEN acc
    ELSE LET slice == Slice(offsets, n, chunk_size)
             got == ExtendValues(acc, ReadCoordinates(hdrs, tbl, slice))
         IN  ChunkLoop(hdrs, tbl, offsets, chunk_size, n + chunk_size,
                       [isNone |-> got.isNone, values |-> got.values,
                        reads |-> Append(acc.reads, slice)])

\* FeatureTable.chunked_table_read: values = None, then the loop
ChunkedTableRead(hdrs, tbl, offsets, chunk_size) ==
    ChunkLoop(hdrs, tbl, offsets, chunk_size, 0,
              [isNone |-> TRUE, values |-> <<>>, reads |-> <<>>])

----------------------------------------------------------------------------
(* FeatureTable: one handle on one remote table *)

\* FeatureTable.__init__ with noopen: cols, pendingcols, table, metanames,
\* ftnames, chunk_size and editable are None (<<>>, 0 and "None" here)
NewFeatureTable ==
    [table |-> FALSE, cols |-> <<>>,
     pendingcols |-> [none |-> TRUE, cols |-> <<>>],
     metanames |-> <<>>, ftnames |-> <<>>, chunk_size |-> 0,
     editable |-> "None"]

\* a plausible bug: the object's ACL alone decides (group edit is enough)
CanEdit_AclOnly(uid, owner, acl) == acl

\* PermissionsHandler.can_edit
CanEdit(uid, owner, acl) == uid = owner /\ acl

\* a plausible bug: only a granted permission is remembered
OwnsTable_DenyForgotten(h, uid, owner, acl) ==
    IF h.editable = "True"
    THEN [outcome |-> "ok", editable |-> h.editable, calls |-> <<>>]
    ELSE IF ~h.table
    THEN [outcome |-> "AttributeError", editable |-> h.editable,
          calls |-> <<>>]
    ELSE IF uid = owner /\ acl
    THEN [outcome |-> "ok", editable |-> "True",
          calls |-> <<"getOriginalFile">>]
    ELSE [outcome |-> "PermissionError", editable |-> "None",
          calls |-> <<"getOriginalFile">>]

\* a plausible bug: the permission is looked up on every call
OwnsTable_Recheck(h, uid, owner, acl) ==
    IF ~h.table
    THEN [outcome |-> "AttributeError", editable |-> h.editable,
          calls |-> <<>>]
    ELSE IF uid = owner /\ acl
    THEN [outcome |-> "ok", editable |-> "True",
          calls |-> <<"getOriginalFile">>]
    ELSE [outcome |-> "PermissionError", editable |-> "False",
          calls |-> <<"getOriginalFile">>]

\* the _owns_table decorator: the outcome of the check, the memoized
\* editable flag after it and the remote calls it made. With editable None
\* on a handle without table, self.table.getOriginalFile() is an attribute
\* access on None.
OwnsTable(h, uid, owner, acl) ==
    IF h.editable = "None"
    THEN IF ~h.table
         THEN [outcome |-> "AttributeError", editable |-> "None",
               calls |-> <<>>]
         ELSE IF CanEdit(uid, owner, acl)
         THEN [outcome |-> "ok", editable |-> "True",
               calls |-> <<"getOriginalFile">>]
         ELSE [outcome |-> "PermissionError", editable |-> "False",
               calls |-> <<"getOriginalFile">>]
    ELSE IF h.editable = "True"
    THEN [outcome |-> "ok", editable |-> h.editable, calls |-> <<>>]
    ELSE [outcome |-> "PermissionError", editable |-> h.editable,
          calls |-> <<>>]

\* FeatureTable.metadata_names: the cached list, else the names of cols[:-1]
MetadataNames(h) ==
    IF h.metanames # <<>> THEN h.metanames
    ELSE [i \in 1..(Len(h.cols) - 1) |-> h.cols[i].name]

\* cols[-1].name.split(','), for the feature column names of the model
SplitNames(name) ==
    IF name = "x1,x2" THEN <<"x1", "x2">> ELSE <<name>>

\* FeatureTable.feature_names
FeatureNames(h) ==
    IF h.ftnames # <<>> THEN h.ftnames
    ELSE SplitNames(h.cols[Len(h.cols)].name)

\* getattr(c, 'size', 1): array and string columns carry a size
ColSize(c) == IF c.type = "Long" THEN 1 ELSE c.size

RECURSIVE SumSizes(_)
SumSizes(cs) ==
    IF cs = <<>> THEN 0 ELSE ColSize(Head(cs)) + SumSizes(Tail(cs))

MaxMessageBytes == 16777216

\* FeatureTable.get_chunk_size
GetChunkSize(h) ==
    IF h.chunk_size # 0 THEN h.chunk_size
    ELSE LET q == MaxMessageBytes \div (SumSizes(h.cols) * 8)
         IN  IF q >= 1 THEN q ELSE 1

\* store: self.cols[n].values = [meta[n]]; self.cols[-1].values = [values]
StoreCols(meta, values) ==
    [i \in 1..(Len(meta) + 1) |->
        IF i <= Len(meta) THEN <<meta[i]>> ELSE <<values>>]

\* store: ' & '.join('(%s==%s)' % kv for kv in zip(metadata_names, meta))
StoreConditions(names, meta) ==
    [n \in 1..Len(meta) |-> Clause(names[n], meta[n])]

\* a plausible bug: the first matching row is the one overwritten
ReplaceOffset_First(offsets) ==
    IF Len(offsets) > 0 THEN offsets[1] ELSE -1

\* store: offset = -1; if offsets: offset = max(offsets)
ReplaceOffset(offsets) ==
    IF Len(offsets) > 0 THEN MaxOf(offsets) ELSE -1

\* FeatureTable.store after the permission and length checks: the outcome,
\* the remote rows afterwards and the remote calls made
StoreBody(hdrs, tbl, names, meta, values, replace) ==
    LET conds == StoreConditions(names, meta)
        qcalls == IF replace THEN <<"getNumberOfRows", "getWhereList">>
                  ELSE <<>>
        offset == IF replace
                  THEN ReplaceOffset(GetWhereList(hdrs, tbl, conds))
                  ELSE -1
        data == StoreCols(meta, values)
    IN  IF replace /\ ~ConditionValid(hdrs, conds)
        THEN [outcome |-> "RemoteError", rows |-> tbl, calls |-> qcalls]
        ELSE IF ~DataValid(hdrs, data)
        THEN [outcome |-> "RemoteError", rows |-> tbl,
              calls |-> Append(qcalls,
                               IF offset > -1 THEN "update" ELSE "addData")]
        ELSE IF offset > -1
        THEN [outcome |-> "ok", rows |-> Update(tbl, offset, data),
              calls |-> Append(qcalls, "update")]
        ELSE [outcome |-> "ok", rows |-> AddData(tbl, data),
              calls |-> Append(qcalls, "addData")]

\* store_pending: pendingcols = table.getHeaders() with values = [] per column
EmptyPending(hdrs) ==
    [none |-> FALSE, cols |-> [i \in 1..Len(hdrs) |-> <<>>]]

\* a plausible bug: the buffer keeps only the row given last
AppendPending_Replace(pc, meta, values) ==
    [none |-> FALSE,
     cols |-> [i \in 1..Len(pc.cols) |->
                  IF i < Len(pc.cols) THEN <<meta[i]>> ELSE <<values>>]]

\* store_pending: pendingcols[n].values.append(meta[n]) per metadata column,
\* pendingcols[-1].values.append(values)
AppendPending(pc, meta, values) ==
    [none |-> FALSE,
     cols |-> [i \in 1..Len(pc.cols) |->
                  IF i < Len(pc.cols)
                  THEN Append(pc.cols[i], meta[i])
                  ELSE Append(pc.cols[i], values)]]

\* len(pendingcols[0].values), 0 without buffer
PendingLen(h) ==
    IF h.pendingcols.none THEN 0 ELSE Len(h.pendingcols.cols[1])

\* a plausible bug: the buffer survives the flush
FlushedPending_Kept(pc) == pc

\* store_flush after the addData: self.pendingcols = None
FlushedPending(pc) == [none |-> TRUE, cols |-> <<>>]

\* fetch_by_metadata_raw: the clauses of the values that are not None
RECURSIVE FetchConditionsFrom(_, _, _)
FetchConditionsFrom(names, meta, n) ==
    IF n > Len(meta) THEN <<>>
    ELSE (IF meta[n] # NoneV THEN <<Clause(names[n], meta[n])>> ELSE <<>>)
         \o FetchConditionsFrom(names, meta, n + 1)

FetchConditions(names, meta) == FetchConditionsFrom(names, meta, 1)

\* filter_raw: zip(*values), one tuple per offset
ZipColumns(values) ==
    [j \in 1..Len(values[1]) |-> [i \in 1..Len(values) |-> values[i][j]]]

\* FeatureTable.feature_row
FeatureRow(fnames, mnames, values) ==
    [names |-> fnames, infonames |-> mnames,
     values |-> values[Len(values)],
     infovalues |-> SubSeq(values, 1, Len(values) - 1)]

\* filter_raw on an open table: the outcome and the row tuples
FilterRaw(h, hdrs, tbl, conds) ==
    IF conds # <<>> /\ ~ConditionValid(hdrs, conds)
    THEN [outcome |-> "RemoteError", rows |-> <<>>,
          calls |-> <<"getNumberOfRows", "getWhereList">>]
    ELSE LET offsets == IF conds # <<>>
                        THEN GetWhereList(hdrs, tbl, conds)
                        ELSE RangeList(Len(tbl))
             got == ChunkedTableRead(hdrs, tbl, offsets, GetChunkSize(h))
             qcalls == IF conds # <<>>
                       THEN <<"getNumberOfRows", "getWhereList">>
                       ELSE <<"getNumberOfRows">>
         IN  [outcome |-> "ok",
              rows |-> IF got.isNone \/ got.values = <<>> THEN <<>>
                       ELSE ZipColumns(got.values),
              calls |-> qcalls \o [i \in 1..Len(got.reads) |->
                                      "readCoordinates"]]

\* fetch_by_metadata with a positional list on an open table
FetchByMetadata(h, hdrs, tbl, meta) ==
    LET names == MetadataNames(h)
    IN  IF Len(meta) # Len(names)
        THEN [outcome |-> "UsageError", result |-> <<>>, calls |-> <<>>]
        ELSE LET raw == FilterRaw(h, hdrs, tbl, FetchConditions(names, meta))
             IN  [outcome |-> raw.outcome,
                  result |-> [j \in 1..Len(raw.rows) |->
                                 FeatureRow(FeatureNames(h), names,
                                            raw.rows[j])],
                  calls |-> raw.calls]

\* a plausible bug: close() forgets to reset self.table
CloseHandle_KeepsTable(h) ==
    IF h.table
    THEN [h EXCEPT !.cols = <<>>, !.ftnames = <<>>, !.editable = "None"]
    ELSE h

\* FeatureTable.close: the calls of self.table.close() it makes
RemoteCloseCalls(h) == IF h.table THEN 1 ELSE 0

\* a plausible bug: close also drops the rows buffered by store_pending
CloseHandle_DropsPending(h) ==
    IF h.table
    THEN [h EXCEPT !.table = FALSE, !.cols = <<>>, !.ftnames = <<>>,
                   !.editable = "None",
                   !.pendingcols = [none |-> TRUE, cols |-> <<>>]]
    ELSE h

\* FeatureTable.close: the fields it resets when a table is open
CloseHandle(h) ==
    IF h.table
    THEN [h EXCEPT !.table = FALSE, !.cols = <<>>, !.ftnames = <<>>,
                   !.editable = "None"]
    ELSE h

----------------------------------------------------------------------------
(* Inputs of the model and the resting values of each group of variables *)

SchemaLong ==
    <<LongColumn("ImageID"), LongColumn("RoiID"),
      DoubleArrayColumn("x1,x2", 2)>>

SchemaString ==
    <<LongColumn("ImageID"), StringColumn("Name", 8),
      DoubleArrayColumn("x1,x2", 2)>>

Schemas == {SchemaLong, SchemaString}

\* the values stored in each column
ColValues(col) ==
    IF col.name = "ImageID" THEN {I(12)}
    ELSE IF col.name = "RoiID" THEN {I(-1), I(34)}
    ELSE {S("aa"), S("bb")}

AllValues == {I(12), I(-1), I(34), S("aa"), S("bb"), NoneV}

\* the positional metadata lists: per column a value of its type or None
MetaLists(hdrs) ==
    {m \in [1..(Len(hdrs) - 1) -> AllValues] :
        \A i \in 1..(Len(hdrs) - 1) :
            m[i] \in ColValues(hdrs[i]) \cup {NoneV}}

\* the metadata lists without None
MetaKeys(hdrs) == {m \in MetaLists(hdrs) : \A i \in DOMAIN m : m[i] # NoneV}

\* a list one value short
ShortMeta == <<I(12)>>

\* the lists given to store and store_pending: every key, one list with a
\* None and the short list
WriteLists(hdrs) ==
    MetaKeys(hdrs) \cup {<<I(12), NoneV>>, ShortMeta}

FeatVecs == {<<10, 20>>, <<30, 40>>}

Users == {1, 2}

LruIdle ==
    /\ lru = LRUCacheInit(1)
    /\ closable = FALSE
    /\ closes = [v \in Values |-> 0]
    /\ nextVal = 1
    /\ recency = <<>>
    /\ overwritten = {}
    /\ lruLast = [op |-> "init", key |-> None, ret |-> Miss, closed |-> <<>>,
                  removed |-> <<>>, raised |-> FALSE]

CkIdle ==
    /\ ckIn = [offsets |-> <<>>, chunk_size |-> 1]
    /\ ckOut = [done |-> FALSE, isNone |-> TRUE, values |-> <<>>,
                reads |-> <<>>]

\* a Python list or None: [some |-> FALSE] is None
NoList == [some |-> FALSE, v |-> <<>>]
List(v) == [some |-> TRUE, v |-> v]

\* the fields of a FeatureRow that was not constructed yet
NoRow ==
    [made |-> FALSE, names |-> NoList, values |-> NoList,
     infonames |-> NoList, infovalues |-> NoList]

RowIdle ==
    /\ fr = NoRow
    /\ frLast = [op |-> "init", outcome |-> "ok", kind |-> "", arg |-> NoList]

RaceIdle ==
    writers = <<>>

NoOp ==
    [op |-> "init", outcome |-> "ok", meta |-> <<>>, vals |-> <<>>,
     replace |-> FALSE, n |-> 0, result |-> <<>>, calls |-> <<>>]

MgrNoOp ==
    [op |-> "init", name |-> "", owner |-> -1, schema |-> "", cached |-> "",
     outcome |-> "ok", ret |-> 0, calls |-> <<>>, closed |-> <<>>]

MgrIdle ==
    /\ files = {}
    /\ nextFile = 1
    /\ fss = LRUCacheInit(1)
    /\ handles = <<>>
    /\ mgrLast = MgrNoOp

TableIdle ==
    /\ headers = SchemaLong
    /\ rows = <<>>
    /\ fileExists = TRUE
    /\ fileOwner = 1
    /\ aclEdit = TRUE
    /\ anns = {}
    /\ userId = 1
    /\ ft = NewFeatureTable
    /\ lastOp = NoOp

----------------------------------------------------------------------------
(* SpecLRU: the cache under its four operations *)

LruInit ==
    /\ \E n \in 1..MaxSize : lru = LRUCacheInit(n)
    /\ closable \in BOOLEAN
    /\ closes = [v \in Values |-> 0]
    /\ nextVal = 1
    /\ recency = <<>>
    /\ overwritten = {}
    /\ lruLast = [op |-> "init", key |-> None, ret |-> Miss, closed |-> <<>>,
                  removed |-> <<>>, raised |-> FALSE]
    /\ CkIdle
    /\ RowIdle
    /\ RaceIdle
    /\ TableIdle
    /\ MgrIdle

\* c.get(key)
LruGet(key) ==
    /\ lru.counter < MaxCounter
    /\ lru' = LRUGet(lru, key)
    /\ recency' = IF key \in DOMAIN lru.cache
                  THEN Append(Without(recency, key), key)
                  ELSE recency
    /\ lruLast' = [op |-> "get", key |-> key,
                   ret |-> LRUGetValue(lru, key, Miss), closed |-> <<>>,
                   removed |-> <<>>, raised |-> FALSE]
    /\ UNCHANGED <<closable, closes, nextVal, overwritten, ckVars, rowVars, raceVars,
                   remoteVars, ftVars, mgrVars>>

\* c.insert(key, value) with a value object never inserted before
LruInsert(key) ==
    /\ lru.counter < MaxCounter
    /\ nextVal <= MaxVals
    /\ lru' = LRUInsert(lru, key, nextVal)
    /\ closes' = CloseValues(closes, InsertClosed(lru, key, closable))
    /\ nextVal' = nextVal + 1
    /\ recency' =
          LET kept == IF Evicts(lru, key) THEN Tail(recency) ELSE recency
          IN  Append(Without(kept, key), key)
    /\ overwritten' = IF key \in DOMAIN lru.cache
                      THEN overwritten \cup {lru.cache[key].v}
                      ELSE overwritten
    /\ lruLast' = [op |-> "insert", key |-> key, ret |-> Miss,
                   closed |-> InsertClosed(lru, key, closable),
                   removed |-> IF Evicts(lru, key)
                               THEN <<lru.cache[OldestKey(lru)].v>> ELSE <<>>,
                   raised |-> FALSE]
    /\ UNCHANGED <<closable, ckVars, rowVars, raceVars, remoteVars, ftVars, mgrVars>>

\* c.remove_oldest() on a cache that holds an entry
LruRemoveOldest ==
    /\ DOMAIN lru.cache # {}
    /\ lru' = LRURemoveOldest(lru)
    /\ closes' = CloseValues(closes, RemoveOldestClosed(lru, closable))
    /\ recency' = Tail(recency)
    /\ lruLast' = [op |-> "remove_oldest", key |-> OldestKey(lru),
                   ret |-> lru.cache[OldestKey(lru)].v,
                   closed |-> RemoveOldestClosed(lru, closable),
                   removed |-> <<lru.cache[OldestKey(lru)].v>>,
                   raised |-> FALSE]
    /\ UNCHANGED <<closable, nextVal, overwritten, ckVars, rowVars, raceVars, remoteVars,
                   ftVars, mgrVars>>

\* c.close() of an LRUClosableCache
LruClose ==
    /\ closable
    /\ lru' = CloseAll(lru)
    /\ closes' = CloseValues(closes, CloseAllClosed(lru))
    /\ recency' = <<>>
    /\ lruLast' = [op |-> "close", key |-> None, ret |-> Miss,
                   closed |-> CloseAllClosed(lru),
                   removed |-> CloseAllClosed(lru), raised |-> FALSE]
    /\ UNCHANGED <<closable, nextVal, overwritten, ckVars, rowVars, raceVars, remoteVars,
                   ftVars, mgrVars>>

LruNext ==
    \/ \E k \in Keys : LruGet(k)
    \/ \E k \in Keys : LruInsert(k)
    \/ LruRemoveOldest
    \/ LruClose

SpecLRU == LruInit /\ [][LruNext]_vars

HeldValues == {lru.cache[k].v : k \in DOMAIN lru.cache}

Inserted == 1..(nextVal - 1)

(* C5: LRU eviction. An insert of a key that is not present, into a cache   *)
(* that holds maxsize entries, removes exactly the entry whose most recent *)
(* access (insert or get hit) is the oldest, keeps every other entry with  *)
(* its value and adds the new key; a key that the previous operation, a    *)
(* get hit, returned is not the victim while another entry exists.         *)
C5_LruEviction ==
    [][ (/\ lruLast'.op = "insert"
         /\ nextVal' = nextVal + 1
         /\ lruLast'.key \notin DOMAIN lru.cache
         /\ LRULen(lru) = lru.maxsize)
        => /\ DOMAIN lru'.cache =
                  (DOMAIN lru.cache \ {Head(recency)}) \cup {lruLast'.key}
           /\ \A k \in DOMAIN lru.cache \ {Head(recency)} :
                  lru'.cache[k].v = lru.cache[k].v
           /\ lru'.cache[lruLast'.key].v = nextVal
           /\ (lruLast.op = "get" /\ lruLast.ret # Miss /\ LRULen(lru) > 1)
                  => lruLast.key \in DOMAIN lru'.cache ]_vars

\* an insert evicted a value inserted later than one it kept: a get hit had
\* made the older entry the more recent one
C5_Witness ==
    /\ lruLast.op = "insert"
    /\ lruLast.removed # <<>>
    /\ LRULen(lru) = 2
    /\ \E v \in HeldValues : v < lruLast.removed[1]

(* C6: LRUClosableCache closes each value exactly once. A value inserted   *)
(* and not replaced by an insert on its own key has had close() called 0   *)
(* times while the cache holds it and exactly once from the moment it      *)
(* leaves the cache (eviction, or the cache's close()); no value is ever   *)
(* closed twice; after close() the cache is empty.                         *)
C6_ClosedExactlyOnce ==
    closable =>
        /\ \A v \in Values : closes[v] <= 1
        /\ \A v \in Inserted \ overwritten :
              closes[v] = IF v \in HeldValues THEN 0 ELSE 1
        /\ \A v \in Values \ Inserted : closes[v] = 0
        /\ lruLast.op = "close" => DOMAIN lru.cache = {}
        /\ Len(lruLast.closed) = Cardinality(Range(lruLast.closed))

\* close() closed two held values after an earlier eviction had closed a third
C6_Witness ==
    /\ closable
    /\ lruLast.op = "close"
    /\ Len(lruLast.closed) = 2
    /\ \E v \in Inserted \ Range(lruLast.closed) : closes[v] = 1

----------------------------------------------------------------------------
(* SpecChunk: chunked_table_read(offsets, chunk_size) on a three-row table *)

MaxOffsets == 4     \* longest offset list read
MaxChunk == 3       \* largest chunk size

SampleRows ==
    <<  <<I(12), I(-1), <<10, 20>>>>,
        <<I(-1), I(12), <<30, 40>>>>,
        <<I(12), I(12), <<50, 60>>>>  >>

OffsetLists ==
    UNION {[1..n -> 0..(Len(SampleRows) - 1)] : n \in 0..MaxOffsets}

ChunkInit ==
    /\ LruIdle
    /\ TableIdle
    /\ MgrIdle
    /\ RowIdle
    /\ RaceIdle
    /\ \E L \in OffsetLists, c \in 1..MaxChunk :
          ckIn = [offsets |-> L, chunk_size |-> c]
    /\ ckOut = [done |-> FALSE, isNone |-> TRUE, values |-> <<>>,
                reads |-> <<>>]

\* store.chunked_table_read(offsets, chunk_size)
ChunkRead ==
    /\ ~ckOut.done
    /\ LET got == ChunkedTableRead(SchemaLong, SampleRows, ckIn.offsets,
                                   ckIn.chunk_size)
       IN  ckOut' = [done |-> TRUE, isNone |-> got.isNone,
                     values |-> got.values, reads |-> got.reads]
    /\ UNCHANGED <<ckIn, lruVars, remoteVars, ftVars, mgrVars, rowVars,
                   raceVars>>

SpecChunk == ChunkInit /\ [][ChunkRead]_vars

RECURSIVE Flatten(_)
Flatten(ss) == IF ss = <<>> THEN <<>> ELSE Head(ss) \o Flatten(Tail(ss))

\* the reads are successive slices of chunk_size offsets, the last one of
\* 1..chunk_size, and together they are the offset list
SuccessiveSlices ==
    /\ Flatten(ckOut.reads) = ckIn.offsets
    /\ \A i \in 1..Len(ckOut.reads) :
          /\ Len(ckOut.reads[i]) >= 1
          /\ Len(ckOut.reads[i]) <= ckIn.chunk_size
          /\ i < Len(ckOut.reads) => Len(ckOut.reads[i]) = ckIn.chunk_size

\* the columns of one unbounded read of the whole offset list
SingleRead == ReadCoordinates(SchemaLong, SampleRows, ckIn.offsets)

(* C4 as stated: for every chunk size and every offset list, the empty    *)
(* list included, chunked_table_read reads successive slices and returns,  *)
(* column by column, the values of a single unbounded read.                *)
C4_AsStated ==
    ckOut.done =>
        /\ SuccessiveSlices
        /\ ~ckOut.isNone
        /\ ckOut.values = SingleRead

(* C4, amended: for every chunk size c >= 1 and every non-empty offset     *)
(* list, chunked_table_read reads successive slices of at most c offsets,  *)
(* every offset once and in list order, and returns column by column the   *)
(* values of a single unbounded read; for the empty list it reads nothing  *)
(* and returns None (no columns).                                          *)
C4_ChunkedReadEquivalence ==
    ckOut.done =>
        /\ SuccessiveSlices
        /\ ckIn.offsets # <<>> =>
              /\ ~ckOut.isNone
              /\ ckOut.values = SingleRead
        /\ ckIn.offsets = <<>> =>
              /\ ckOut.isNone
              /\ ckOut.reads = <<>>

\* four offsets, one of them twice, read in chunks of three: a full chunk
\* and a shorter one
C4_Witness ==
    /\ ckOut.done
    /\ ckIn.chunk_size = 3
    /\ ckIn.offsets = <<2, 0, 2, 1>>
    /\ Len(ckOut.reads) = 2
    /\ ckOut.values[3] = << <<50, 60>>, <<10, 20>>, <<50, 60>>, <<30, 40>> >>

----------------------------------------------------------------------------
(* Spec: one FeatureTable handle on one remote table file *)

MaxRows == 2        \* rows in the remote table plus rows buffered

Op(op, outcome, meta, vals, replace, n, result, calls) ==
    [op |-> op, outcome |-> outcome, meta |-> meta, vals |-> vals,
     replace |-> replace, n |-> n, result |-> result, calls |-> calls]

Init ==
    /\ LruIdle
    /\ CkIdle
    /\ RowIdle
    /\ RaceIdle
    /\ MgrIdle
    /\ headers \in Schemas
    /\ rows \in {<<>>} \cup
                 {<<m \o << <<10, 20>> >> >> : m \in MetaKeys(headers)}
    /\ fileExists = TRUE
    /\ fileOwner \in Users
    /\ aclEdit \in BOOLEAN
    /\ anns \in {{}, {"ImageAnnotationLink", "FileAnnotation"}}
    /\ userId = 1
    /\ (fileOwner = userId /\ aclEdit) => rows = <<>>
    /\ (fileOwner = userId /\ aclEdit /\ headers = SchemaString)
          => anns # {}
    /\ ft = NewFeatureTable
    /\ lastOp = NoOp

\* open_or_create_table(ownerid) without schema arguments, one table file
\* of this name and path at most
Open(ownerid) ==
    /\ IF ft.table
       THEN /\ lastOp' = Op("open", "UsageError", <<>>, <<>>, FALSE, 0, <<>>,
                            <<>>)
            /\ ft' = ft
       ELSE IF ~(fileExists /\ (ownerid > -1 => ownerid = fileOwner))
       THEN /\ lastOp' = Op("open", "NoTableMatch", <<>>, <<>>, FALSE, 0,
                            <<>>, <<"findAllByQuery">>)
            /\ ft' = ft
       ELSE /\ lastOp' = Op("open", "ok", <<>>, <<>>, FALSE, 0, <<>>,
                            <<"findAllByQuery", "openTable", "getHeaders">>)
            /\ ft' = [ft EXCEPT !.table = TRUE, !.cols = headers]
    /\ UNCHANGED <<remoteVars, userId, lruVars, ckVars, rowVars, raceVars, mgrVars>>

\* FeatureTable.close
Close ==
    /\ ft' = CloseHandle(ft)
    /\ lastOp' = Op("close", "ok", <<>>, <<>>, FALSE, 0, <<>>,
                    IF ft.table THEN <<"close">> ELSE <<>>)
    /\ UNCHANGED <<remoteVars, userId, lruVars, ckVars, rowVars, raceVars, mgrVars>>

\* FeatureTable.store(meta, values, replace)
Store(meta, values, replace) ==
    LET pre == OwnsTable(ft, userId, fileOwner, aclEdit)
        names == MetadataNames(ft)
        body == StoreBody(headers, rows, names, meta, values, replace)
    IN  IF pre.outcome # "ok"
        THEN /\ ft' = [ft EXCEPT !.editable = pre.editable]
             /\ lastOp' = Op("store", pre.outcome, meta, values, replace, 0,
                             <<>>, pre.calls)
             /\ UNCHANGED <<remoteVars, userId, lruVars, ckVars, rowVars, raceVars, mgrVars>>
        ELSE IF Len(meta) # Len(names)
        THEN /\ ft' = [ft EXCEPT !.editable = pre.editable,
                                 !.metanames = names]
             /\ lastOp' = Op("store", "UsageError", meta, values, replace, 0,
                             <<>>, pre.calls)
             /\ UNCHANGED <<remoteVars, userId, lruVars, ckVars, rowVars, raceVars, mgrVars>>
        ELSE /\ Len(body.rows) + PendingLen(ft) <= MaxRows
             /\ ft' = [ft EXCEPT !.editable = pre.editable,
                                 !.metanames = names]
             /\ rows' = body.rows
             /\ lastOp' = Op("store", body.outcome, meta, values, replace, 0,
                             <<>>, pre.calls \o body.calls)
             /\ UNCHANGED <<headers, fileExists, fileOwner, aclEdit, anns,
                            userId, lruVars, ckVars, rowVars, raceVars, mgrVars>>

\* FeatureTable.store_pending(meta, values)
StorePending(meta, values) ==
    LET pre == OwnsTable(ft, userId, fileOwner, aclEdit)
        names == MetadataNames(ft)
        fresh == ft.pendingcols.none
        pc == IF fresh THEN EmptyPending(headers) ELSE ft.pendingcols
        hcalls == IF fresh THEN <<"getHeaders">> ELSE <<>>
    IN  IF pre.outcome # "ok"
        THEN /\ ft' = [ft EXCEPT !.editable = pre.editable]
             /\ lastOp' = Op("store_pending", pre.outcome, meta, values,
                             FALSE, 0, <<>>, pre.calls)
             /\ UNCHANGED <<remoteVars, userId, lruVars, ckVars, rowVars, raceVars, mgrVars>>
        ELSE IF Len(meta) # Len(names)
        THEN /\ ft' = [ft EXCEPT !.editable = pre.editable,
                                 !.metanames = names, !.pendingcols = pc]
             /\ lastOp' = Op("store_pending", "UsageError", meta, values,
                             FALSE, 0, <<>>, pre.calls \o hcalls)
             /\ UNCHANGED <<remoteVars, userId, lruVars, ckVars, rowVars, raceVars, mgrVars>>
        ELSE /\ Len(rows) + PendingLen(ft) < MaxRows
             /\ ft' = [ft EXCEPT !.editable = pre.editable,
                                 !.metanames = names,
                                 !.pendingcols =
                                     AppendPending(pc, meta, values)]
             /\ lastOp' = Op("store_pending", "ok", meta, values, FALSE, 0,
                             <<>>, pre.calls \o hcalls)
             /\ UNCHANGED <<remoteVars, userId, lruVars, ckVars, rowVars, raceVars, mgrVars>>

\* FeatureTable.store_flush()
StoreFlush ==
    LET pre == OwnsTable(ft, userId, fileOwner, aclEdit)
        pc == ft.pendingcols
    IN  IF pre.outcome # "ok"
        THEN /\ ft' = [ft EXCEPT !.editable = pre.editable]
             /\ lastOp' = Op("store_flush", pre.outcome, <<>>, <<>>, FALSE,
                             0, <<>>, pre.calls)
             /\ UNCHANGED <<remoteVars, userId, lruVars, ckVars, rowVars, raceVars, mgrVars>>
        ELSE IF pc.none
        THEN /\ ft' = [ft EXCEPT !.editable = pre.editable]
             /\ lastOp' = Op("store_flush", "ok", <<>>, <<>>, FALSE, 0,
                             <<>>, pre.calls)
             /\ UNCHANGED <<remoteVars, userId, lruVars, ckVars, rowVars, raceVars, mgrVars>>
        ELSE IF ~DataValid(headers, pc.cols)
        THEN /\ ft' = [ft EXCEPT !.editable = pre.editable]
             /\ lastOp' = Op("store_flush", "RemoteError", <<>>, <<>>,
                             FALSE, 0, <<>>, Append(pre.calls, "addData"))
             /\ UNCHANGED <<remoteVars, userId, lruVars, ckVars, rowVars, raceVars, mgrVars>>
        ELSE /\ ft' = [ft EXCEPT !.editable = pre.editable,
                                 !.pendingcols = FlushedPending(pc)]
             /\ rows' = AddData(rows, pc.cols)
             /\ lastOp' = Op("store_flush", "ok", <<>>, <<>>, FALSE,
                             Len(pc.cols[1]), <<>>,
                             Append(pre.calls, "addData"))
             /\ UNCHANGED <<headers, fileExists, fileOwner, aclEdit, anns,
                            userId, lruVars, ckVars, rowVars, raceVars, mgrVars>>

\* FeatureTable.fetch_by_metadata(meta) with a positional list
Fetch(meta) ==
    /\ IF ft.metanames = <<>> /\ ft.cols = <<>>
       THEN /\ lastOp' = Op("fetch", "TypeError", meta, <<>>, FALSE, 0, <<>>,
                            <<>>)
            /\ ft' = ft
       ELSE IF Len(meta) # Len(MetadataNames(ft))
       THEN /\ lastOp' = Op("fetch", "UsageError", meta, <<>>, FALSE, 0,
                            <<>>, <<>>)
            /\ ft' = [ft EXCEPT !.metanames = MetadataNames(ft)]
       ELSE IF ~ft.table
       THEN /\ lastOp' = Op("fetch", "AttributeError", meta, <<>>, FALSE, 0,
                            <<>>, <<>>)
            /\ ft' = [ft EXCEPT !.metanames = MetadataNames(ft)]
       ELSE LET got == FetchByMetadata(ft, headers, rows, meta)
            IN  /\ lastOp' = Op("fetch", got.outcome, meta, <<>>, FALSE, 0,
                                got.result, got.calls)
                /\ ft' = [ft EXCEPT
                            !.metanames = MetadataNames(ft),
                            !.chunk_size = IF got.outcome = "ok"
                                           THEN GetChunkSize(ft)
                                           ELSE ft.chunk_size,
                            !.ftnames = IF got.result # <<>>
                                        THEN FeatureNames(ft)
                                        ELSE ft.ftnames]
    /\ UNCHANGED <<remoteVars, userId, lruVars, ckVars, rowVars, raceVars, mgrVars>>

\* _get_annotation_link_types(): the link classes delete() queries, in order
LinkTypes == <<"ImageAnnotationLink", "RoiAnnotationLink">>

\* the link types of ts that have a link to the file, in the order of ts
RECURSIVE LinksFound(_, _)
LinksFound(a, ts) ==
    IF ts = <<>> THEN <<>>
    ELSE (IF Head(ts) \in a THEN <<Head(ts)>> ELSE <<>>)
         \o LinksFound(a, Tail(ts))

\* a plausible bug: the table file is deleted before what references it
Collected_FileFirst(a) ==
    <<"OriginalFile">> \o LinksFound(a, LinkTypes)
        \o (IF "FileAnnotation" \in a THEN <<"FileAnnotation">> ELSE <<>>)

\* delete: ds, the links found per link type, then the file annotations,
\* then the table's OriginalFile
Collected(a) ==
    LinksFound(a, LinkTypes)
        \o (IF "FileAnnotation" \in a THEN <<"FileAnnotation">> ELSE <<>>)
        \o <<"OriginalFile">>

\* FeatureTable.delete(): result lists the objects passed to deleteObject
Delete ==
    LET pre == OwnsTable(ft, userId, fileOwner, aclEdit)
    IN  IF pre.outcome # "ok"
        THEN /\ ft' = [ft EXCEPT !.editable = pre.editable]
             /\ lastOp' = Op("delete", pre.outcome, <<>>, <<>>, FALSE, 0,
                             <<>>, pre.calls)
             /\ UNCHANGED <<remoteVars, userId, lruVars, ckVars, rowVars, raceVars, mgrVars>>
        ELSE /\ ft' = CloseHandle([ft EXCEPT !.editable = pre.editable])
             /\ lastOp' = Op("delete", "ok", <<>>, <<>>, FALSE,
                             Len(Collected(anns)), Collected(anns),
                             pre.calls \o <<"getOriginalFile">>
                               \o [i \in 1..(Len(LinkTypes) + 1) |->
                                       "findAllByQuery"]
                               \o <<"close">>
                               \o [i \in 1..Len(Collected(anns)) |->
                                       "deleteObject"])
             /\ anns' = {}
             /\ fileExists' = FALSE
             /\ rows' = <<>>
             /\ UNCHANGED <<headers, fileOwner, aclEdit, userId, lruVars,
                            ckVars, rowVars, raceVars, mgrVars>>

\* FeatureTable.get_table()
GetTable ==
    /\ lastOp' = Op("get_table", IF ft.table THEN "ok" ELSE "UsageError",
                    <<>>, <<>>, FALSE, 0, <<>>, <<>>)
    /\ UNCHANGED <<ft, remoteVars, userId, lruVars, ckVars, rowVars, raceVars, mgrVars>>

\* the lists used while the handle is opened, closed and deleted: one key
\* and the short list
LifeLists(hdrs) ==
    {m \in MetaKeys(hdrs) : m[2] \in {I(-1), S("aa")}} \cup {ShortMeta}

Next ==
    \/ \E o \in {-1} \cup Users : Open(o)
    \/ Close
    \/ \E m \in LifeLists(headers), r \in BOOLEAN : Store(m, <<10, 20>>, r)
    \/ \E m \in LifeLists(headers), v \in FeatVecs : StorePending(m, v)
    \/ StoreFlush
    \/ \E m \in LifeLists(headers) : Fetch(m)
    \/ Delete
    \/ GetTable

Spec == Init /\ [][Next]_vars

----------------------------------------------------------------------------
(* SpecData: the writes and reads of a handle that stays open on a table   *)
(* its user owns, over every metadata key and feature vector               *)

\* FeatureTable(session, name, ft_space, ann_space, ownerid): the handle is
\* opened by the constructor
DataInit ==
    /\ LruIdle
    /\ CkIdle
    /\ RowIdle
    /\ RaceIdle
    /\ MgrIdle
    /\ headers \in Schemas
    /\ rows = <<>>
    /\ fileExists = TRUE
    /\ fileOwner = 1
    /\ aclEdit = TRUE
    /\ anns = {}
    /\ userId = 1
    /\ ft = [NewFeatureTable EXCEPT !.table = TRUE, !.cols = headers]
    /\ lastOp = Op("open", "ok", <<>>, <<>>, FALSE, 0, <<>>,
                   <<"findAllByQuery", "openTable", "getHeaders">>)

DataNext ==
    \/ \E m \in WriteLists(headers), v \in FeatVecs, r \in BOOLEAN :
          Store(m, v, r)
    \/ \E m \in WriteLists(headers), v \in FeatVecs : StorePending(m, v)
    \/ StoreFlush
    \/ \E m \in MetaLists(headers) \cup {ShortMeta} : Fetch(m)

SpecData == DataInit /\ [][DataNext]_vars

\* the rows of tbl with metadata m, in table order
RECURSIVE RowsWithKey(_, _)
RowsWithKey(tbl, m) ==
    IF tbl = <<>> THEN <<>>
    ELSE (IF SubSeq(Head(tbl), 1, Len(m)) = m THEN <<Head(tbl)>> ELSE <<>>)
         \o RowsWithKey(Tail(tbl), m)

\* the step is a store / a fetch whose list is a full metadata key of the
\* schema (every value of its column's type, none of them None)
StoreStepOfKey == lastOp'.op = "store" /\ lastOp'.meta \in MetaKeys(headers)

FetchStepOfKey == lastOp'.op = "fetch" /\ lastOp'.meta \in MetaKeys(headers)

(* C1 as stated: on an owned open table holding no row for metadata key K, *)
(* store(K, v1) succeeds and leaves one row for K; a following             *)
(* store(K, v2, replace=true) succeeds and leaves exactly one row with key *)
(* K, which carries v2; a following store(K, v2, replace=false) succeeds   *)
(* and leaves two rows with key K.                                         *)
C1_ReplaceSemantics ==
    [][ /\ (StoreStepOfKey /\ RowsWithKey(rows, lastOp'.meta) = <<>>)
            => /\ lastOp'.outcome = "ok"
               /\ RowsWithKey(rows', lastOp'.meta) =
                      << lastOp'.meta \o <<lastOp'.vals>> >>
        /\ (/\ StoreStepOfKey
            /\ lastOp.op = "store" /\ lastOp.outcome = "ok"
            /\ lastOp.meta = lastOp'.meta
            /\ Len(RowsWithKey(rows, lastOp.meta)) = 1)
            => /\ lastOp'.outcome = "ok"
               /\ lastOp'.replace =>
                      RowsWithKey(rows', lastOp'.meta) =
                          << lastOp'.meta \o <<lastOp'.vals>> >>
               /\ ~lastOp'.replace =>
                      Len(RowsWithKey(rows', lastOp'.meta)) = 2 ]_vars

(* C2 as stated: round trip. For every metadata tuple m without None and   *)
(* every feature vector v of the schema's width, store(m, v) on an owned   *)
(* open table succeeds, and the fetch_by_metadata(m) that follows it       *)
(* returns a row whose metadata values are m and whose feature values are  *)
(* v.                                                                      *)
C2_RoundTrip ==
    [][ /\ StoreStepOfKey => lastOp'.outcome = "ok"
        /\ (/\ FetchStepOfKey
            /\ lastOp.op = "store" /\ lastOp.outcome = "ok"
            /\ lastOp.meta = lastOp'.meta)
            => /\ lastOp'.outcome = "ok"
               /\ \E j \in 1..Len(lastOp'.result) :
                     /\ lastOp'.result[j].infovalues = lastOp.meta
                     /\ lastOp'.result[j].values = lastOp.vals ]_vars

\* the rows buffered by store_pending, in the order they were buffered
PendingRows(h) ==
    IF h.pendingcols.none \/ h.pendingcols.cols = <<>> THEN <<>>
    ELSE RowsOf(h.pendingcols.cols)

\* the table after one store(meta, values, replace=False) per row of rs, in
\* order; ok is FALSE when one of them fails
RECURSIVE StoreEach(_, _, _, _)
StoreEach(hdrs, tbl, names, rs) ==
    IF rs = <<>> THEN [ok |-> TRUE, rows |-> tbl]
    ELSE LET r == Head(rs)
             one == StoreBody(hdrs, tbl, names, SubSeq(r, 1, Len(r) - 1),
                              r[Len(r)], FALSE)
         IN  IF Len(r) - 1 # Len(names) \/ one.outcome # "ok"
             THEN [ok |-> FALSE, rows |-> tbl]
             ELSE StoreEach(hdrs, one.rows, names, Tail(rs))

(* C3: batch equivalence. A successful store_pending leaves the remote     *)
(* table as it is and adds its row at the end of the buffer; a store_flush *)
(* of N >= 1 buffered rows that the remote table accepts succeeds,         *)
(* returns N and leaves the remote table in the state that N individual    *)
(* store(replace=false) calls with the same rows, in the same order, leave *)
(* it in: the N rows appended after the existing rows.                     *)
C3_BatchEquivalence ==
    [][ /\ (lastOp'.op = "store_pending" /\ lastOp'.outcome = "ok")
            => /\ rows' = rows
               /\ PendingRows(ft') =
                      Append(PendingRows(ft), lastOp'.meta \o <<lastOp'.vals>>)
        /\ (/\ lastOp'.op = "store_flush"
            /\ PendingLen(ft) >= 1
            /\ StoreEach(headers, rows, MetadataNames(ft), PendingRows(ft)).ok)
            => /\ lastOp'.outcome = "ok"
               /\ lastOp'.n = PendingLen(ft)
               /\ rows' = StoreEach(headers, rows, MetadataNames(ft),
                                    PendingRows(ft)).rows
               /\ rows' = rows \o PendingRows(ft)
               /\ PendingLen(ft') = 0 ]_vars

\* a flush appended two different buffered rows
C3_Witness ==
    /\ lastOp.op = "store_flush"
    /\ lastOp.outcome = "ok"
    /\ lastOp.n = 2
    /\ Len(rows) = 2
    /\ rows[1] # rows[2]
    /\ PendingLen(ft) = 0

WriteOps == {"store", "store_pending", "store_flush", "delete"}

RemoteWrites == {"addData", "update", "deleteObject"}

(* C7: owner-only writes. On an open handle store, store_pending,          *)
(* store_flush and delete pass the permission check exactly when the table *)
(* file's owner is the caller and the file's ACL permits edit; otherwise   *)
(* they raise a permission error, make no addData, update or deleteObject  *)
(* call and leave the rows, the annotations and the file as they are. An   *)
(* ACL that permits edit is not enough for a caller who is not the owner.  *)
C7_OwnerOnlyWrites ==
    [][ (lastOp'.op \in WriteOps /\ ft.table)
            => IF fileOwner = userId /\ aclEdit
               THEN lastOp'.outcome # "PermissionError"
               ELSE /\ lastOp'.outcome = "PermissionError"
                    /\ Range(lastOp'.calls) \cap RemoteWrites = {}
                    /\ rows' = rows
                    /\ anns' = anns
                    /\ fileExists' = fileExists ]_vars

\* a write was refused to a caller who is not the owner although the ACL
\* permits edit, on a table that holds a row and annotations
C7_Witness ==
    /\ lastOp.op \in WriteOps
    /\ lastOp.outcome = "PermissionError"
    /\ fileOwner # userId
    /\ aclEdit
    /\ ft.table
    /\ ft.editable = "False"
    /\ Len(rows) = 1
    /\ anns # {}

----------------------------------------------------------------------------
(* SpecMgr: a FeatureTableManager, the remote table files and the handles  *)
(* it hands out, which the caller may close or delete                      *)

MaxHandles == 2     \* FeatureTable objects constructed
MaxFiles == 2       \* table files ever created
MaxStamp == 3       \* cap of the manager cache's access counter

MgrNames == {"fs1", "fs2"}

\* get(featureset_name, ownerid=None): the owner argument, <<>> when omitted
OwnerArgs == {<<>>, <<-1>>, <<2>>}

\* create(featureset_name, metadesc, names): schema arguments new_table
\* accepts, schema arguments it rejects, and two empty lists
SchemaArgs == {"valid", "invalid", "empty"}

TableFile(id, name, owner) == [id |-> id, name |-> name, owner |-> owner]

\* a plausible bug: the owner is left out of the query
FindTableFiles_AnyOwner(fs, name, ownerid) ==
    {f \in fs : f.name = name}

\* get_objects('OriginalFile', q): name and path, and the owner when
\* ownerid > -1
FindTableFiles(fs, name, ownerid) ==
    {f \in fs : f.name = name /\ (ownerid > -1 => f.owner = ownerid)}

\* a plausible bug: the cache key leaves the owner out
CacheKey_NameOnly(name, ownerid) == <<name, -1>>

\* k = (featureset_name, ownerid)
CacheKey(name, ownerid) == <<name, ownerid>>

\* a FeatureTable after open_table / new_table on the file f
\* remoteCloses counts the calls of close() on the remote table it opened
OpenedHandle(f) ==
    [ft |-> [NewFeatureTable EXCEPT !.table = TRUE, !.cols = SchemaLong],
     file |-> f, remoteCloses |-> 0]

\* a plausible bug: only a missing entry is reopened
NeedsReopen_MissOnly(hs, v) == v = Miss

\* FeatureTableManager.get: if not fs or not fs.table
NeedsReopen(hs, v) == v = Miss \/ ~hs[v].ft.table

\* value.close() on each handle of ids
CloseHandles(hs, ids) ==
    [i \in 1..Len(hs) |->
        IF i \in Range(ids)
        THEN [hs[i] EXCEPT !.ft = CloseHandle(hs[i].ft),
                           !.remoteCloses = @ + RemoteCloseCalls(hs[i].ft)]
        ELSE hs[i]]

\* a plausible bug: the manager keeps its handles in a plain LRUCache, which
\* drops an evicted handle without closing it
InsertHandle_PlainCache(c, hs, k, f) ==
    [fss |-> LRUInsert(c, k, Len(hs) + 1),
     handles |-> Append(hs, OpenedHandle(f)),
     closed |-> <<>>]

\* self.fss.insert(k, fs) with a newly constructed handle fs on the file f:
\* the cache, the handles and the handles close() was called on
InsertHandle(c, hs, k, f) ==
    [fss |-> LRUInsert(c, k, Len(hs) + 1),
     handles |-> Append(CloseHandles(hs, InsertClosed(c, k, TRUE)),
                        OpenedHandle(f)),
     closed |-> InsertClosed(c, k, TRUE)]

\* how get finds the key in the cache
Cached(c, hs, k) ==
    IF k \notin DOMAIN c.cache THEN "absent"
    ELSE IF hs[c.cache[k].v].ft.table THEN "open" ELSE "closed"

\* FeatureTableManager.get(featureset_name, ownerid)
MgrGetBody(c, hs, fs, name, ownerid) ==
    LET k == CacheKey(name, ownerid)
        v == LRUGetValue(c, k, Miss)
        c1 == LRUGet(c, k)
        found == FindTableFiles(fs, name, ownerid)
    IN  IF ~NeedsReopen(hs, v)
        THEN [outcome |-> "ok", fss |-> c1, handles |-> hs, ret |-> v,
              calls |-> <<>>, closed |-> <<>>]
        ELSE IF found = {}
        THEN [outcome |-> "NoTableMatch", fss |-> c1, handles |-> hs,
              ret |-> 0, calls |-> <<"findAllByQuery">>, closed |-> <<>>]
        ELSE IF Cardinality(found) > 1
        THEN [outcome |-> "TooManyTables", fss |-> c1, handles |-> hs,
              ret |-> 0, calls |-> <<"findAllByQuery">>, closed |-> <<>>]
        ELSE LET ins == InsertHandle(c1, hs, k, CHOOSE f \in found : TRUE)
             IN  [outcome |-> "ok", fss |-> ins.fss, handles |-> ins.handles,
                  ret |-> Len(hs) + 1,
                  calls |-> <<"findAllByQuery", "openTable", "getHeaders">>,
                  closed |-> ins.closed]

MgrOp(op, name, owner, schema, cached, outcome, ret, calls, closed) ==
    [op |-> op, name |-> name, owner |-> owner, schema |-> schema,
     cached |-> cached, outcome |-> outcome, ret |-> ret, calls |-> calls,
     closed |-> closed]

MgrInit ==
    /\ LruIdle
    /\ CkIdle
    /\ RowIdle
    /\ RaceIdle
    /\ TableIdle
    /\ files \in {{}, {TableFile(0, "fs1", 2)}}
    /\ nextFile = 1
    /\ \E n \in 1..MaxSize : fss = LRUCacheInit(n)
    /\ handles = <<>>
    /\ mgrLast = MgrNoOp

\* manager.get(name, ownerid)
MgrGet(name, ownerarg) ==
    LET ownerid == IF ownerarg = <<>> THEN userId ELSE ownerarg[1]
        g == MgrGetBody(fss, handles, files, name, ownerid)
    IN  /\ fss.counter < MaxStamp
        /\ Len(g.handles) <= MaxHandles
        /\ fss' = g.fss
        /\ handles' = g.handles
        /\ mgrLast' = MgrOp("get", name, ownerid, "",
                            Cached(fss, handles, CacheKey(name, ownerid)),
                            g.outcome, g.ret, g.calls, g.closed)
        /\ UNCHANGED <<files, nextFile, lruVars, ckVars, rowVars, raceVars, remoteVars, ftVars>>

\* manager.create(name, metadesc, names)
MgrCreate(name, schema) ==
    LET ownerid == userId
        k == CacheKey(name, ownerid)
        g == MgrGetBody(fss, handles, files, name, ownerid)
        cached == Cached(fss, handles, k)
        found == FindTableFiles(files, name, ownerid)
        newfile == TableFile(nextFile, name, ownerid)
        ins == InsertHandle(g.fss, g.handles, k, newfile)
    IN  /\ fss.counter < MaxStamp
        /\ Len(g.handles) <= MaxHandles
        /\ nextFile <= MaxFiles
        /\ IF g.outcome = "ok"
           THEN \* if fs: raise TooManyTablesException
                /\ mgrLast' = MgrOp("create", name, ownerid, schema, cached,
                                    "TooManyTables", 0, g.calls, g.closed)
                /\ fss' = g.fss
                /\ handles' = g.handles
                /\ UNCHANGED <<files, nextFile>>
           ELSE IF g.outcome # "NoTableMatch"
           THEN \* the exception of get is not caught
                /\ mgrLast' = MgrOp("create", name, ownerid, schema, cached,
                                    g.outcome, 0, g.calls, g.closed)
                /\ fss' = g.fss
                /\ handles' = g.handles
                /\ UNCHANGED <<files, nextFile>>
           ELSE IF schema = "empty"
           THEN \* the constructor takes the open path
                /\ mgrLast' = MgrOp("create", name, ownerid, schema, cached,
                                    IF found = {} THEN "NoTableMatch"
                                    ELSE "TooManyTables", 0,
                                    g.calls \o <<"findAllByQuery">>, <<>>)
                /\ fss' = g.fss
                /\ handles' = g.handles
                /\ UNCHANGED <<files, nextFile>>
           ELSE IF found # {}
           THEN /\ mgrLast' = MgrOp("create", name, ownerid, schema, cached,
                                    "TooManyTables", 0,
                                    g.calls \o <<"findAllByQuery">>, <<>>)
                /\ fss' = g.fss
                /\ handles' = g.handles
                /\ UNCHANGED <<files, nextFile>>
           ELSE IF schema = "invalid"
           THEN \* new_table raises before newTable
                /\ mgrLast' = MgrOp("create", name, ownerid, schema, cached,
                                    "UsageError", 0,
                                    g.calls \o <<"findAllByQuery">>, <<>>)
                /\ fss' = g.fss
                /\ handles' = g.handles
                /\ UNCHANGED <<files, nextFile>>
           ELSE /\ mgrLast' = MgrOp("create", name, ownerid, schema, cached,
                                    "ok", Len(g.handles) + 1,
                                    g.calls \o <<"findAllByQuery", "newTable",
                                                 "initialize", "getHeaders">>,
                                    ins.closed)
                /\ files' = files \cup {newfile}
                /\ nextFile' = nextFile + 1
                /\ Len(ins.handles) <= MaxHandles
                /\ fss' = ins.fss
                /\ handles' = ins.handles
        /\ UNCHANGED <<lruVars, ckVars, rowVars, raceVars, remoteVars, ftVars>>

\* manager.close()
MgrClose ==
    /\ fss' = CloseAll(fss)
    /\ handles' = CloseHandles(handles, CloseAllClosed(fss))
    /\ mgrLast' = MgrOp("close", "", -1, "", "", "ok", 0, <<>>,
                        CloseAllClosed(fss))
    /\ UNCHANGED <<files, nextFile, lruVars, ckVars, rowVars, raceVars, remoteVars, ftVars>>

\* the caller closes a handle the manager returned: fs.close()
HandleClose(i) ==
    /\ handles' = CloseHandles(handles, <<i>>)
    /\ mgrLast' = MgrOp("handle_close", handles[i].file.name, -1, "", "",
                        "ok", i,
                        IF handles[i].ft.table THEN <<"close">> ELSE <<>>,
                        <<i>>)
    /\ UNCHANGED <<files, nextFile, fss, lruVars, ckVars, rowVars, raceVars, remoteVars, ftVars>>

\* the caller deletes the table of a handle the manager returned:
\* fs.delete(); the remote service refuses a file that no longer exists
HandleDelete(i) ==
    LET h == handles[i]
        pre == OwnsTable(h.ft, userId, h.file.owner, TRUE)
        checked == [h EXCEPT !.ft.editable = pre.editable]
    IN  /\ IF pre.outcome # "ok"
           THEN /\ handles' = [handles EXCEPT ![i] = checked]
                /\ mgrLast' = MgrOp("handle_delete", h.file.name, -1, "", "",
                                    pre.outcome, i, pre.calls, <<>>)
                /\ files' = files
           ELSE IF h.file \notin files
           THEN /\ handles' = [handles EXCEPT ![i] = checked]
                /\ mgrLast' = MgrOp("handle_delete", h.file.name, -1, "", "",
                                    "RemoteError", i,
                                    Append(pre.calls, "getOriginalFile"),
                                    <<>>)
                /\ files' = files
           ELSE /\ handles' = CloseHandles([handles EXCEPT ![i] = checked],
                                           <<i>>)
                /\ mgrLast' = MgrOp("handle_delete", h.file.name, -1, "", "",
                                    "ok", i,
                                    pre.calls \o <<"getOriginalFile",
                                                   "findAllByQuery", "close",
                                                   "deleteObject">>,
                                    <<i>>)
                /\ files' = files \ {h.file}
        /\ UNCHANGED <<nextFile, fss, lruVars, ckVars, rowVars, raceVars, remoteVars, ftVars>>

MgrNext ==
    \/ \E n \in MgrNames, o \in OwnerArgs : MgrGet(n, o)
    \/ \E n \in MgrNames, a \in SchemaArgs : MgrCreate(n, a)
    \/ MgrClose
    \/ \E i \in 1..Len(handles) : HandleClose(i)
    \/ \E i \in 1..Len(handles) : HandleDelete(i)

SpecMgr == MgrInit /\ [][MgrNext]_vars

\* the key of the manager step
StepKey == <<mgrLast'.name, mgrLast'.owner>>

\* before the step the cache holds an open handle under the step's key
HitOpen ==
    /\ StepKey \in DOMAIN fss.cache
    /\ handles[fss.cache[StepKey].v].ft.table

\* before the step no remote table file has the step's name and owner (any
\* owner when the owner id is -1)
NoSuchTable ==
    \A f \in files :
        ~(f.name = mgrLast'.name
          /\ (mgrLast'.owner > -1 => f.owner = mgrLast'.owner))

\* the step leaves the cache's keys and their handles as they are
SameEntries ==
    /\ DOMAIN fss'.cache = DOMAIN fss.cache
    /\ \A j \in DOMAIN fss.cache : fss'.cache[j].v = fss.cache[j].v

(* C8: manager get(name, owner). When the cache holds an open handle under *)
(* (name, owner), get returns that handle, makes no remote call and leaves *)
(* the cache's entries and every handle as they are; when the key is       *)
(* absent or its cached handle is closed, a get that succeeds has looked   *)
(* the table up and opened it in a new handle on a file of that name and   *)
(* owner; after every successful get the cache holds the returned handle   *)
(* under (name, owner) and that handle is open.                            *)
C8_ManagerGet ==
    [][ mgrLast'.op = "get" =>
          /\ HitOpen =>
                /\ mgrLast'.outcome = "ok"
                /\ mgrLast'.ret = fss.cache[StepKey].v
                /\ mgrLast'.calls = <<>>
                /\ handles' = handles
                /\ SameEntries
          /\ (~HitOpen /\ mgrLast'.outcome = "ok") =>
                /\ mgrLast'.ret = Len(handles) + 1
                /\ Len(handles') = Len(handles) + 1
                /\ {"findAllByQuery", "openTable"} \subseteq
                       Range(mgrLast'.calls)
                /\ handles'[mgrLast'.ret].file \in files
                /\ handles'[mgrLast'.ret].file.name = mgrLast'.name
                /\ mgrLast'.owner > -1 =>
                       handles'[mgrLast'.ret].file.owner = mgrLast'.owner
          /\ mgrLast'.outcome = "ok" =>
                /\ StepKey \in DOMAIN fss'.cache
                /\ fss'.cache[StepKey].v = mgrLast'.ret
                /\ handles'[mgrLast'.ret].ft.table ]_vars

\* a get found a closed handle under its key, reopened the table and cached
\* the new open handle in its place
C8_Witness ==
    /\ mgrLast.op = "get"
    /\ mgrLast.outcome = "ok"
    /\ mgrLast.cached = "closed"
    /\ fss.cache[<<mgrLast.name, mgrLast.owner>>].v = mgrLast.ret
    /\ handles[mgrLast.ret].ft.table
    /\ \E i \in 1..(mgrLast.ret - 1) :
          handles[i].file = handles[mgrLast.ret].file /\ ~handles[i].ft.table

(* C9 as stated: whenever no remote table of that name owned by that owner *)
(* exists, get(name, owner) raises not-found and leaves the cache's        *)
(* entries as they are.                                                    *)
C9_AsStated ==
    [][ (mgrLast'.op = "get" /\ NoSuchTable)
            => /\ mgrLast'.outcome = "NoTableMatch"
               /\ SameEntries ]_vars

(* C9, amended: when no remote table of that name owned by that owner      *)
(* exists (a table of the name owned by somebody else may exist) and the   *)
(* cache holds no open handle under (name, owner), get raises not-found,   *)
(* inserts no entry, evicts none and closes no handle; when the cache      *)
(* still holds an open handle under (name, owner), whose table has been    *)
(* deleted through another handle, get returns that handle.                *)
C9_ManagerGetNotFound ==
    [][ (mgrLast'.op = "get" /\ NoSuchTable)
            => IF HitOpen
               THEN /\ mgrLast'.outcome = "ok"
                    /\ mgrLast'.ret = fss.cache[StepKey].v
               ELSE /\ mgrLast'.outcome = "NoTableMatch"
                    /\ SameEntries
                    /\ handles' = handles
                    /\ mgrLast'.closed = <<>>
                    /\ files' = files ]_vars

\* a get for the caller's own table was refused with not-found while a table
\* of that name owned by another user exists and the cache is full
C9_Witness ==
    /\ mgrLast.op = "get"
    /\ mgrLast.outcome = "NoTableMatch"
    /\ mgrLast.owner = userId
    /\ mgrLast.cached = "absent"
    /\ \E f \in files : f.name = mgrLast.name /\ f.owner # userId
    /\ LRULen(fss) = fss.maxsize

\* before the step a table file of the step's name owned by the caller exists
OwnTableExists ==
    \E f \in files : f.name = mgrLast'.name /\ f.owner = userId

\* the step created a table file for the caller and cached its open handle
\* under (name, caller id)
CreatedAndCached ==
    /\ mgrLast'.outcome = "ok"
    /\ files' = files \cup {TableFile(nextFile, mgrLast'.name, userId)}
    /\ <<mgrLast'.name, userId>> \in DOMAIN fss'.cache
    /\ fss'.cache[<<mgrLast'.name, userId>>].v = mgrLast'.ret
    /\ handles'[mgrLast'.ret].ft.table
    /\ handles'[mgrLast'.ret].file =
           TableFile(nextFile, mgrLast'.name, userId)

(* C10 as stated: create(name, metadesc, names) with a schema new_table    *)
(* accepts fails with too-many-matches and creates nothing if a table of   *)
(* that name exists for the caller, and otherwise creates the table and    *)
(* caches its open handle under (name, caller id).                         *)
C10_AsStated ==
    [][ (mgrLast'.op = "create" /\ mgrLast'.schema = "valid")
            => IF OwnTableExists
               THEN mgrLast'.outcome = "TooManyTables" /\ files' = files
               ELSE CreatedAndCached ]_vars

(* C10, amended: create(name, metadesc, names) with a schema new_table     *)
(* accepts uses the caller's id as owner. It fails with too-many-matches   *)
(* and creates no table if a table of that name exists for the caller      *)
(* (cached or only remote) or if the cache still holds an open handle      *)
(* under (name, caller id), even one whose table has been deleted through  *)
(* another handle; otherwise it creates the table and caches the new open  *)
(* handle under (name, caller id).                                         *)
C10_ManagerCreate ==
    [][ (mgrLast'.op = "create" /\ mgrLast'.schema = "valid")
            => /\ mgrLast'.owner = userId
               /\ IF OwnTableExists \/ HitOpen
                  THEN /\ mgrLast'.outcome = "TooManyTables"
                       /\ files' = files
                  ELSE CreatedAndCached ]_vars

\* a create was refused because the caller's table exists remotely although
\* the cache held no handle for it
C10_Witness ==
    /\ mgrLast.op = "create"
    /\ mgrLast.schema = "valid"
    /\ mgrLast.outcome = "TooManyTables"
    /\ mgrLast.cached = "absent"
    /\ Cardinality({f \in files : f.name = mgrLast.name
                                  /\ f.owner = userId}) = 1

----------------------------------------------------------------------------
(* Spec, continued: the handle after close, delete, and the write buffer   *)

\* the operations that need an open table
TableOps ==
    {"get_table", "store", "store_pending", "store_flush", "fetch", "delete"}

(* C15 as stated: after close() of an open table, every operation that     *)
(* needs an open table (get_table, store, store_pending, store_flush,      *)
(* fetch_by_metadata, delete) fails with a usage error and makes no remote *)
(* call.                                                                   *)
C15_ClosedHandleUsageError ==
    [][ (/\ lastOp.op = "close"
         /\ lastOp.calls = <<"close">>
         /\ ~ft.table
         /\ lastOp'.op \in TableOps)
            => /\ lastOp'.outcome = "UsageError"
               /\ lastOp'.calls = <<>> ]_vars

(* C16 as stated: after close() the handle retains no table, no column     *)
(* headers, no cached metadata-name list, no cached feature-name list, no  *)
(* cached chunk size and no memoized permission result.                    *)
C16_CloseClearsCaches ==
    lastOp.op = "close" =>
        /\ ~ft.table
        /\ ft.cols = <<>>
        /\ ft.metanames = <<>>
        /\ ft.ftnames = <<>>
        /\ ft.chunk_size = 0
        /\ ft.editable = "None"

\* position of the first / last occurrence of x in the sequence s (0 / 0
\* when x does not occur)
FirstAt(s, x) ==
    IF x \in Range(s) THEN CHOOSE i \in 1..Len(s) :
                                s[i] = x /\ \A j \in 1..(i - 1) : s[j] # x
    ELSE 0

LastAt(s, x) ==
    IF x \in Range(s) THEN CHOOSE i \in 1..Len(s) :
                                s[i] = x /\ \A j \in (i + 1)..Len(s) : s[j] # x
    ELSE 0

(* C17: delete on an owned open table succeeds; it deletes exactly the     *)
(* annotation links and the file annotations that reference the file and   *)
(* the file itself, every link before every file annotation and the file   *)
(* last; the handle's close comes before the first remote delete; with no  *)
(* link and no annotation it deletes the file alone; afterwards the handle *)
(* has no open table and the file and what referenced it are gone.         *)
C17_DeleteOrder ==
    [][ (lastOp'.op = "delete" /\ ft.table /\ fileOwner = userId /\ aclEdit)
            => LET d == lastOp'.result
                   k == lastOp'.calls
               IN  /\ lastOp'.outcome = "ok"
                   /\ Len(d) = Cardinality(anns) + 1
                   /\ Range(d) = anns \cup {"OriginalFile"}
                   /\ d[Len(d)] = "OriginalFile"
                   /\ \A i \in 1..Len(d) : \A j \in 1..Len(d) :
                         (d[i] = "FileAnnotation" /\ d[j] \in Range(LinkTypes))
                             => j < i
                   /\ Cardinality({i \in 1..Len(k) : k[i] = "deleteObject"})
                          = Len(d)
                   /\ Cardinality({i \in 1..Len(k) : k[i] = "close"}) = 1
                   /\ FirstAt(k, "close") < FirstAt(k, "deleteObject")
                   /\ LastAt(k, "findAllByQuery") < FirstAt(k, "close")
                   /\ ~ft'.table
                   /\ anns' = {}
                   /\ ~fileExists' ]_vars

\* a delete removed a link, a file annotation and the file
C17_Witness ==
    /\ lastOp.op = "delete"
    /\ lastOp.outcome = "ok"
    /\ lastOp.result =
           <<"ImageAnnotationLink", "FileAnnotation", "OriginalFile">>
    /\ ~ft.table
    /\ ~fileExists
    /\ anns = {}

(* C18 as stated: store_flush with nothing pending returns 0, issues no    *)
(* remote call of any kind and leaves the remote table and the handle      *)
(* state unchanged, in every state of an open handle, also before any      *)
(* write was attempted on it.                                              *)
C18_AsStated ==
    [][ (lastOp'.op = "store_flush" /\ ft.table /\ PendingLen(ft) = 0)
            => /\ lastOp'.outcome = "ok"
               /\ lastOp'.n = 0
               /\ lastOp'.calls = <<>>
               /\ rows' = rows
               /\ ft' = ft ]_vars

(* C18, amended: on an open handle store_flush with no row buffered never  *)
(* changes the remote rows. If the caller may edit the table it returns 0; *)
(* when the permission result is already memoized and no buffer exists it  *)
(* makes no remote call and leaves the handle unchanged; on the first      *)
(* write operation since the open it first looks the permission up (one    *)
(* getOriginalFile call) and memoizes it; when a store_pending that failed *)
(* on its argument left an empty buffer it sends that empty buffer in one  *)
(* addData call and drops it. If the caller may not edit the table it      *)
(* raises the permission error.                                            *)
C18_FlushNothingPending ==
    [][ (lastOp'.op = "store_flush" /\ ft.table /\ PendingLen(ft) = 0)
            => /\ rows' = rows
               /\ IF fileOwner = userId /\ aclEdit
                  THEN /\ lastOp'.outcome = "ok"
                       /\ lastOp'.n = 0
                       /\ ft' = [ft EXCEPT !.editable = "True",
                                           !.pendingcols =
                                               [none |-> TRUE, cols |-> <<>>]]
                       /\ lastOp'.calls =
                              (IF ft.editable = "None"
                               THEN <<"getOriginalFile">> ELSE <<>>)
                              \o (IF ft.pendingcols.none
                                  THEN <<>> ELSE <<"addData">>)
                  ELSE /\ lastOp'.outcome = "PermissionError"
                       /\ lastOp'.calls \in {<<>>, <<"getOriginalFile">>} ]_vars

\* a flush with nothing pending returned 0 without any remote call, on a
\* handle that has written before
C18_Witness ==
    /\ lastOp.op = "store_flush"
    /\ lastOp.outcome = "ok"
    /\ lastOp.n = 0
    /\ lastOp.calls = <<>>
    /\ ft.table
    /\ ft.editable = "True"
    /\ Len(rows) >= 1

(* C19 as stated: store_pending on an open table the caller owns buffers   *)
(* the row, makes no remote call and leaves the remote rows unchanged.     *)
C19_AsStated ==
    [][ (lastOp'.op = "store_pending" /\ ft.table
         /\ fileOwner = userId /\ aclEdit
         /\ Len(lastOp'.meta) = Len(MetadataNames(ft)))
            => /\ lastOp'.outcome = "ok"
               /\ lastOp'.calls = <<>>
               /\ rows' = rows ]_vars

(* C19, amended: store_pending never changes the remote rows and makes no  *)
(* addData, update or deleteObject call, whatever the number of calls      *)
(* before a store_flush; an accepted row is added at the end of the        *)
(* buffer. Its only remote calls are the permission lookup                 *)
(* (getOriginalFile) on the first write operation since the open and one   *)
(* getHeaders when the buffer is created, that is on the first             *)
(* store_pending since the last flush.                                     *)
C19_PendingBuffersOnly ==
    [][ (lastOp'.op = "store_pending" /\ ft.table)
            => /\ rows' = rows
               /\ Range(lastOp'.calls) \cap RemoteWrites = {}
               /\ (fileOwner = userId /\ aclEdit) =>
                     /\ lastOp'.calls =
                            (IF ft.editable = "None"
                             THEN <<"getOriginalFile">> ELSE <<>>)
                            \o (IF ft.pendingcols.none
                                THEN <<"getHeaders">> ELSE <<>>)
                     /\ Len(lastOp'.meta) = Len(MetadataNames(ft)) =>
                           /\ lastOp'.outcome = "ok"
                           /\ PendingRows(ft') =
                                  Append(PendingRows(ft),
                                         lastOp'.meta \o <<lastOp'.vals>>) ]_vars

\* a second row was buffered without any remote call; the remote table is
\* still empty
C19_Witness ==
    /\ lastOp.op = "store_pending"
    /\ lastOp.outcome = "ok"
    /\ lastOp.calls = <<>>
    /\ PendingLen(ft) = 2
    /\ ft.pendingcols.cols[3][1] # ft.pendingcols.cols[3][2]
    /\ rows = <<>>

----------------------------------------------------------------------------
(* SpecLRU, continued *)

(* C20: LRUCache.insert of a key that is present overwrites its value,     *)
(* removes and closes no entry and leaves the keys, the other values and   *)
(* the number of entries as they are, also when the cache is full; a get   *)
(* of that key right after the insert returns the new value.               *)
C20_InsertPresentKey ==
    [][ /\ (/\ lruLast'.op = "insert"
            /\ nextVal' = nextVal + 1
            /\ lruLast'.key \in DOMAIN lru.cache)
            => /\ DOMAIN lru'.cache = DOMAIN lru.cache
               /\ LRULen(lru') = LRULen(lru)
               /\ lru'.cache[lruLast'.key].v = nextVal
               /\ \A k \in DOMAIN lru.cache \ {lruLast'.key} :
                      lru'.cache[k].v = lru.cache[k].v
               /\ lruLast'.removed = <<>>
               /\ closes' = closes
        /\ (/\ lruLast'.op = "get"
            /\ lruLast.op = "insert"
            /\ lruLast'.key = lruLast.key)
            => lruLast'.ret = nextVal - 1 ]_vars

\* the last insert replaced the value inserted just before it, in a full
\* cache of two entries that has never dropped an entry
C20_Witness ==
    /\ lruLast.op = "insert"
    /\ lruLast.removed = <<>>
    /\ lru.maxsize = 2
    /\ LRULen(lru) = 2
    /\ nextVal = 4
    /\ overwritten = {2}
    /\ HeldValues = {1, 3}
    /\ lru.cache[lruLast.key].v = 3

----------------------------------------------------------------------------
(* SpecOpen: open_or_create_table, new_table and open_table on one handle. *)
(* files is the set of remote table files [id, name, owner, cols]; cols is *)
(* empty for a file whose table was never initialized. A name is a         *)
(* sequence of one-character strings.                                      *)

\* the most remote table files the handle's service ever creates, counting
\* the two that may exist at the start
MaxTables == 4

\* the name the handle was constructed with
OpenName == "fs1"

\* META_COLUMN_TYPES: the omero.grid column classes that are not arrays
MetaColumnTypes ==
    {"Bool", "Double", "File", "Image", "Long", "Mask", "Plate", "Roi",
     "String", "Well"}

\* representatives of [A-Za-z0-9]
AlNum == {"a", "b", "1"}

\* the other characters FEATURE_NAME_RE allows after the first
NamePunct == {"_", " ", "-", "(", ")", "[", "]", "{", "}", "."}

\* a plausible bug: the first character is checked like the others
NameOk_AnyFirst(n) ==
    /\ Len(n) >= 1
    /\ \A i \in 1..Len(n) :
          \/ n[i] \in AlNum \cup NamePunct
          \/ i = Len(n) /\ i > 1 /\ n[i] = "\n"

\* a plausible bug: the pattern lets a comma through
NameOk_Comma(n) ==
    /\ Len(n) >= 1
    /\ n[1] \in AlNum
    /\ \A i \in 2..Len(n) :
          \/ n[i] \in AlNum \cup NamePunct \cup {","}
          \/ i = Len(n) /\ n[i] = "\n"

\* re.match(FEATURE_NAME_RE, n): an alphanumeric first character, then
\* alphanumerics and the listed punctuation; $ also matches before one
\* final newline
NameOk(n) ==
    /\ Len(n) >= 1
    /\ n[1] \in AlNum
    /\ \A i \in 2..Len(n) :
          \/ n[i] \in AlNum \cup NamePunct
          \/ i = Len(n) /\ n[i] = "\n"

\* new_table: the checks on one metadata description m
DescOk(m) ==
    /\ Len(m) \in {2, 3}
    /\ m[1] \in MetaColumnTypes
    /\ (m[1] = "String") => (Len(m) = 3 /\ m[3] # 0 /\ ~(m[3] < 1))
    /\ NameOk(m[2])

\* new_table: the validation that precedes newTable
NewTableValid(metadesc, coldesc) ==
    /\ metadesc # <<>>
    /\ coldesc # <<>>
    /\ \A i \in 1..Len(metadesc) : DescOk(metadesc[i])
    /\ \A j \in 1..Len(coldesc) : NameOk(coldesc[j])

\* FeatureTable._column_from_desc
ColumnFromDesc(desc) ==
    [type |-> desc[1], name |-> desc[2],
     size |-> IF Len(desc) > 2 THEN desc[3] ELSE 0]

\* ','.join(coldesc)
RECURSIVE JoinNames(_)
JoinNames(ns) ==
    IF ns = <<>> THEN <<>>
    ELSE IF Len(ns) = 1 THEN ns[1]
    ELSE ns[1] \o <<",">> \o JoinNames(Tail(ns))

\* new_table: coldef, the metadata columns and the packed feature column
ColDef(metadesc, coldesc) ==
    [i \in 1..Len(metadesc) |-> ColumnFromDesc(metadesc[i])]
        \o <<DoubleArrayColumn(JoinNames(coldesc), Len(coldesc))>>

\* the OriginalFile of a table and the columns it was initialized with
StoredTable(id, owner, cols) ==
    [id |-> id, name |-> OpenName, owner |-> owner, cols |-> cols]

\* a plausible bug: creation only when both lists are given
CreateRequested_Both(metadesc, coldesc) ==
    metadesc # <<>> /\ coldesc # <<>>

\* open_or_create_table: if metadesc or coldesc (None and [] are both false)
CreateRequested(metadesc, coldesc) ==
    metadesc # <<>> \/ coldesc # <<>>

\* a plausible bug: an open handle is not rejected
AlreadyOpen_Never(h) == FALSE

\* open_or_create_table: if self.table
AlreadyOpen(h) == h.table

\* the names used in descriptions
NmA == <<"a">>
NmB == <<"b", "_", "1">>
NmBad == <<"_", "a">>
NmComma == <<"a", ",", "b">>
NmNl == <<"b", "\n">>

\* metadesc arguments: none, accepted ones, and one per rejection
MetaDescs ==
    << <<>>,
       << <<"Long", NmA>> >>,
       << <<"Long", NmA>>, <<"String", NmB, 8>> >>,
       << <<"String", NmA>> >>,
       << <<"String", NmA, 0>> >>,
       << <<"Long", NmBad>> >>,
       << <<"LongArray", NmA>> >>,
       << <<"Long">> >> >>

\* coldesc arguments: none, accepted ones, and rejected names
ColDescs ==
    << <<>>, <<NmA>>, <<NmA, NmB>>, <<NmA, NmNl>>, <<NmA, NmComma>>,
       <<<<>>>> >>

\* ownerid arguments: any owner, the caller, another user
OpenOwners == {-1, 1, 2}

\* what table.initialize does: succeeds, raises omero.InternalException,
\* raises another exception
InitializeResults == {"ok", "InternalException", "ServerError"}

\* the columns of the tables that exist at the start
InitCols == ColDef(<< <<"Long", NmA>> >>, <<NmA, NmB>>)

OpenOp(outcome, ownerid, metadesc, coldesc, result, calls) ==
    Op("open_or_create", outcome, metadesc, coldesc, FALSE, ownerid, result,
       calls)

\* FeatureTable.open_table(tablefile)
OpenTable(ownerid, f) ==
    /\ ft' = [ft EXCEPT !.table = TRUE, !.cols = f.cols]
    /\ lastOp' = OpenOp(IF f.cols = <<>> THEN "OmeroTableException" ELSE "ok",
                        ownerid, <<>>, <<>>, <<f.id>>,
                        <<"findAllByQuery", "openTable", "getHeaders">>)
    /\ UNCHANGED <<files, nextFile>>

\* new_table from newTable on, for arguments that passed the validation;
\* renamed: the service split the path, the file is saved and reopened
CreateTable(ownerid, metadesc, coldesc, renamed, initres) ==
    LET created == <<"findAllByQuery", "newTable", "getOriginalFile">>
                   \o (IF renamed
                       THEN <<"saveAndReturnObject", "close", "openTable">>
                       ELSE <<>>)
                   \o <<"initialize">>
    IN  /\ nextFile' = nextFile + 1
        /\ IF initres = "ok"
           THEN /\ files' = files \cup
                       {StoredTable(nextFile, userId,
                                    ColDef(metadesc, coldesc))}
                /\ ft' = [ft EXCEPT !.table = TRUE,
                                    !.cols = ColDef(metadesc, coldesc)]
                /\ lastOp' = OpenOp("ok", ownerid, metadesc, coldesc,
                                    <<nextFile>>, created \o <<"getHeaders">>)
           ELSE IF initres = "InternalException"
           THEN /\ files' = files
                /\ ft' = [ft EXCEPT !.table = TRUE]
                /\ lastOp' = OpenOp("InternalException", ownerid, metadesc,
                                    coldesc, <<nextFile>>,
                                    created \o <<"deleteObject">>)
           ELSE /\ files' = files \cup {StoredTable(nextFile, userId, <<>>)}
                /\ ft' = [ft EXCEPT !.table = TRUE]
                /\ lastOp' = OpenOp("ServerError", ownerid, metadesc,
                                    coldesc, <<nextFile>>, created)

\* FeatureTable.new_table(metadesc, coldesc), with the lookup of
\* open_or_create_table behind it
NewTable(ownerid, metadesc, coldesc) ==
    IF ~NewTableValid(metadesc, coldesc)
    THEN /\ lastOp' = OpenOp("UsageError", ownerid, metadesc, coldesc, <<>>,
                             <<"findAllByQuery">>)
         /\ UNCHANGED <<ft, files, nextFile>>
    ELSE /\ nextFile <= MaxTables
         /\ \E renamed \in BOOLEAN, initres \in InitializeResults :
               CreateTable(ownerid, metadesc, coldesc, renamed, initres)

\* FeatureTable.open_or_create_table(ownerid, metadesc, coldesc)
OpenOrCreate(ownerid, metadesc, coldesc) ==
    LET tablefile == FindTableFiles(files, OpenName, ownerid)
    IN  /\ IF AlreadyOpen(ft)
           THEN /\ lastOp' = OpenOp("UsageError", ownerid, metadesc, coldesc,
                                    <<>>, <<>>)
                /\ UNCHANGED <<ft, files, nextFile>>
           ELSE IF CreateRequested(metadesc, coldesc)
           THEN IF tablefile # {}
                THEN /\ lastOp' = OpenOp("TooManyTables", ownerid, metadesc,
                                         coldesc, <<>>, <<"findAllByQuery">>)
                     /\ UNCHANGED <<ft, files, nextFile>>
                ELSE IF userId # ownerid
                THEN /\ lastOp' = OpenOp("UsageError", ownerid, metadesc,
                                         coldesc, <<>>, <<"findAllByQuery">>)
                     /\ UNCHANGED <<ft, files, nextFile>>
                ELSE NewTable(ownerid, metadesc, coldesc)
           ELSE IF Cardinality(tablefile) < 1
           THEN /\ lastOp' = OpenOp("NoTableMatch", ownerid, metadesc,
                                    coldesc, <<>>, <<"findAllByQuery">>)
                /\ UNCHANGED <<ft, files, nextFile>>
           ELSE IF Cardinality(tablefile) > 1
           THEN /\ lastOp' = OpenOp("TooManyTables", ownerid, metadesc,
                                    coldesc, <<>>, <<"findAllByQuery">>)
                /\ UNCHANGED <<ft, files, nextFile>>
           ELSE OpenTable(ownerid, CHOOSE f \in tablefile : TRUE)
        /\ UNCHANGED <<remoteVars, userId, lruVars, ckVars, rowVars, raceVars, fss, handles,
                       mgrLast>>

OpenInit ==
    /\ LruIdle
    /\ CkIdle
    /\ RowIdle
    /\ RaceIdle
    /\ TableIdle
    /\ files \in {{},
                  {StoredTable(1, 1, InitCols)},
                  {StoredTable(1, 2, InitCols)},
                  {StoredTable(1, 1, InitCols), StoredTable(2, 2, InitCols)},
                  {StoredTable(1, 1, InitCols), StoredTable(2, 1, InitCols)}}
    /\ nextFile = 3
    /\ fss = LRUCacheInit(1)
    /\ handles = <<>>
    /\ mgrLast = MgrNoOp

OpenNext ==
    \/ \E o \in OpenOwners, i \in 1..Len(MetaDescs), j \in 1..Len(ColDescs) :
          OpenOrCreate(o, MetaDescs[i], ColDescs[j])
    \/ Close
    \/ GetTable

SpecOpen == OpenInit /\ [][OpenNext]_vars

\* the failures of open_or_create_table that precede any open or create
LookupFailures == {"TooManyTables", "UsageError", "NoTableMatch"}

\* the remote calls that open or create a table
OpenCreateCalls ==
    {"newTable", "openTable", "initialize", "saveAndReturnObject",
     "getHeaders"}

\* the files a lookup for owner o matches (-1: any owner)
Matching(o) ==
    {f \in files : f.name = OpenName /\ (o # -1 => f.owner = o)}

\* the name pattern: an alphanumeric, then alphanumerics, spaces and the
\* listed punctuation (a final newline passes the $ of the pattern)
MatchesNamePattern(n) ==
    /\ n # <<>>
    /\ Head(n) \in AlNum
    /\ \A i \in 2..Len(n) :
          n[i] \in AlNum \cup NamePunct \/ (i = Len(n) /\ n[i] = "\n")

C12_AlreadyOpen ==
    [][ (lastOp'.op = "open_or_create" /\ ft.table)
            => /\ lastOp'.outcome = "UsageError"
               /\ lastOp'.calls = <<>>
               /\ ft' = ft
               /\ files' = files
               /\ nextFile' = nextFile ]_vars

\* an open with valid schema arguments was rejected on an open handle
C12_Witness ==
    /\ lastOp.op = "open_or_create"
    /\ lastOp.outcome = "UsageError"
    /\ lastOp.calls = <<>>
    /\ NewTableValid(lastOp.meta, lastOp.vals)
    /\ lastOp.n = userId
    /\ Matching(userId) = {}
    /\ ft.table
    /\ ft.cols # <<>>

\* the reasons for which the schema arguments must be rejected: an empty
\* list, a name outside the pattern, a String column without positive width
MustReject(m, c) ==
    \/ m = <<>>
    \/ c = <<>>
    \/ \E i \in 1..Len(m) : Len(m[i]) >= 2 /\ ~MatchesNamePattern(m[i][2])
    \/ \E j \in 1..Len(c) : ~MatchesNamePattern(c[j])
    \/ \E i \in 1..Len(m) :
          m[i][1] = "String" /\ (Len(m[i]) < 3 \/ m[i][3] < 1)

(* C13: schema creation validates before it touches the remote service:    *)
(* when new_table is reached with an empty metadata or feature list, with  *)
(* a metadata or feature name outside the name pattern, or with a String   *)
(* metadata column that lacks a positive width, it fails with a usage      *)
(* error, no remote table is created (no newTable or initialize call, the  *)
(* remote files unchanged) and the handle is left with no open table.      *)
C13_ValidateBeforeCreate ==
    [][ (/\ lastOp'.op = "open_or_create"
         /\ ~ft.table
         /\ lastOp'.meta # <<>> \/ lastOp'.vals # <<>>
         /\ lastOp'.n = userId
         /\ Matching(userId) = {}
         /\ MustReject(lastOp'.meta, lastOp'.vals))
            => /\ lastOp'.outcome = "UsageError"
               /\ Range(lastOp'.calls) \cap OpenCreateCalls = {}
               /\ files' = files
               /\ nextFile' = nextFile
               /\ ~ft'.table
               /\ ft' = ft ]_vars

\* a feature name that holds a comma was rejected after the lookup, with
\* accepted metadata
C13_Witness ==
    /\ lastOp.op = "open_or_create"
    /\ lastOp.outcome = "UsageError"
    /\ lastOp.calls = <<"findAllByQuery">>
    /\ lastOp.n = userId
    /\ Matching(userId) = {}
    /\ lastOp.meta = << <<"Long", NmA>> >>
    /\ lastOp.vals = <<NmA, NmComma>>
    /\ ~ft.table

(* C14 as stated: if the remote initialize step of table creation fails,   *)
(* the partially created remote table object is deleted and the failure    *)
(* is raised to the caller; initialize is not retried.                     *)
C14_InitializeFailure ==
    [][ (/\ lastOp'.op = "open_or_create"
         /\ "initialize" \in Range(lastOp'.calls)
         /\ lastOp'.outcome # "ok")
            => LET k == lastOp'.calls
               IN  /\ lastOp'.outcome \in {"InternalException", "ServerError"}
                   /\ Cardinality({i \in 1..Len(k) : k[i] = "initialize"}) = 1
                   /\ k[Len(k)] = "deleteObject"
                   /\ \A f \in files' : f.id # lastOp'.result[1]
                   /\ files' = files ]_vars

----------------------------------------------------------------------------
(* SpecRow: one FeatureRow under construction, assignment of the whole     *)
(* feature or metadata vector, and assignment of one item by name          *)

\* the longest vector handed to a FeatureRow
MaxRowLen == 3

\* Python truth of a list-or-None: None and [] are false
Truthy(x) == x.some /\ x.v # <<>>

\* a plausible bug: the metadata vector is stored unchecked
SetInfovalues_Unchecked(r, value) ==
    [outcome |-> "ok", row |-> [r EXCEPT !.infovalues = value]]

\* FeatureRow.infovalues setter
SetInfovalues(r, value) ==
    IF Truthy(r.infonames) /\ Len(r.infonames.v) # Len(value.v)
    THEN [outcome |-> "FeatureRowException", row |-> r]
    ELSE [outcome |-> "ok", row |-> [r EXCEPT !.infovalues = value]]

\* FeatureRow.values setter: the width comes from the names, else from the
\* values held, else from the new vector
SetValues(r, value) ==
    LET w == IF Truthy(r.names) THEN Len(r.names.v)
             ELSE IF Truthy(r.values) THEN Len(r.values.v)
             ELSE Len(value.v)
    IN  IF Len(value.v) # w
        THEN [outcome |-> "FeatureRowException", row |-> r]
        ELSE [outcome |-> "ok", row |-> [r EXCEPT !.values = value]]

\* FeatureRow.__init__(names, values, infonames, infovalues)
NewRow(names, values, infonames, infovalues) ==
    LET r0 == [NoRow EXCEPT !.made = TRUE, !.names = names]
        r1 == IF Truthy(values) THEN SetValues(r0, values)
              ELSE [outcome |-> "ok", row |-> r0]
        r2 == [r1.row EXCEPT !.infonames = infonames]
        r3 == IF Truthy(infovalues) THEN SetInfovalues(r2, infovalues)
              ELSE [outcome |-> "ok", row |-> r2]
    IN  IF ~Truthy(names) /\ ~Truthy(values)
        THEN [outcome |-> "FeatureRowException", row |-> NoRow]
        ELSE IF Truthy(names) /\ Truthy(values)
                /\ Len(names.v) # Len(values.v)
        THEN [outcome |-> "FeatureRowException", row |-> NoRow]
        ELSE IF r1.outcome # "ok" \/ r3.outcome # "ok"
        THEN [outcome |-> "FeatureRowException", row |-> NoRow]
        ELSE r3

\* dict(zip(names, xrange(len(names))))[name]: the last position of name
IndexOf(names, name) ==
    CHOOSE i \in 1..Len(names) :
        names[i] = name /\ \A j \in (i + 1)..Len(names) : names[j] # name

\* FeatureRow.__setitem__(key, value): a feature name is looked up before a
\* metadata name; assigning into a vector that is None is a TypeError
SetItem(r, key, value) ==
    IF Truthy(r.names) /\ key \in Range(r.names.v)
    THEN IF ~r.values.some
         THEN [outcome |-> "TypeError", row |-> r]
         ELSE IF IndexOf(r.names.v, key) > Len(r.values.v)
         THEN [outcome |-> "IndexError", row |-> r]
         ELSE [outcome |-> "ok",
               row |-> [r EXCEPT
                           !.values.v[IndexOf(r.names.v, key)] = value]]
    ELSE IF Truthy(r.infonames) /\ key \in Range(r.infonames.v)
    THEN IF ~r.infovalues.some
         THEN [outcome |-> "TypeError", row |-> r]
         ELSE IF IndexOf(r.infonames.v, key) > Len(r.infovalues.v)
         THEN [outcome |-> "IndexError", row |-> r]
         ELSE [outcome |-> "ok",
               row |-> [r EXCEPT
                           !.infovalues.v[IndexOf(r.infonames.v, key)] =
                               value]]
    ELSE [outcome |-> "KeyError", row |-> r]

\* the vectors handed to the row: None, and the lists of up to MaxRowLen
\* items, all 1 or all 2
ValueArgs ==
    {NoList} \cup {List([i \in 1..n |-> c]) : n \in 0..MaxRowLen, c \in {1, 2}}

\* the name lists: None, the empty list, one name, two names
RowNames == {NoList, List(<<>>), List(<<"a">>), List(<<"a", "b">>)}
RowInfonames == {NoList, List(<<>>), List(<<"ma">>), List(<<"ma", "mb">>)}

RowOp(op, outcome, args) == [op |-> op, outcome |-> outcome, args |-> args]

RowInit ==
    /\ LruIdle
    /\ CkIdle
    /\ TableIdle
    /\ MgrIdle
    /\ RaceIdle
    /\ fr = NoRow
    /\ frLast = RowOp("init", "ok", <<>>)

\* row = FeatureRow(names, values, infonames, infovalues)
RowNew(names, values, infonames, infovalues) ==
    /\ ~fr.made
    /\ LET new == NewRow(names, values, infonames, infovalues)
       IN  /\ fr' = new.row
           /\ frLast' = RowOp("new", new.outcome,
                              <<names, values, infonames, infovalues>>)
    /\ UNCHANGED <<lruVars, ckVars, remoteVars, ftVars, mgrVars, raceVars>>

\* row.values = value
RowSetValues(value) ==
    /\ fr.made
    /\ fr' = SetValues(fr, value).row
    /\ frLast' = RowOp("set_values", SetValues(fr, value).outcome, <<value>>)
    /\ UNCHANGED <<lruVars, ckVars, remoteVars, ftVars, mgrVars, raceVars>>

\* row.infovalues = value
RowSetInfovalues(value) ==
    /\ fr.made
    /\ fr' = SetInfovalues(fr, value).row
    /\ frLast' = RowOp("set_infovalues", SetInfovalues(fr, value).outcome,
                       <<value>>)
    /\ UNCHANGED <<lruVars, ckVars, remoteVars, ftVars, mgrVars, raceVars>>

\* row[key] = 3
RowSetItem(key) ==
    /\ fr.made
    /\ fr' = SetItem(fr, key, 3).row
    /\ frLast' = RowOp("set_item", SetItem(fr, key, 3).outcome, <<key>>)
    /\ UNCHANGED <<lruVars, ckVars, remoteVars, ftVars, mgrVars, raceVars>>

RowNext ==
    \/ \E n \in RowNames, v \in ValueArgs, m \in RowInfonames,
          w \in ValueArgs : RowNew(n, v, m, w)
    \/ \E v \in ValueArgs \ {NoList} : RowSetValues(v)
    \/ \E v \in ValueArgs \ {NoList} : RowSetInfovalues(v)
    \/ \E k \in {"a", "b", "ma", "mb", "zz"} : RowSetItem(k)

SpecRow == RowInit /\ [][RowNext]_vars

\* a vector was handed over: a list with at least one item
Given(x) == x.some /\ x.v # <<>>

\* names and values of one kind agree in length
SameLength(names, values) ==
    (Given(names) /\ values.some) => Len(values.v) = Len(names.v)

----------------------------------------------------------------------------
(* SpecData, continued: chunk size, conditions, reads and write paths *)

\* the per-row cost as the documentation states it: the width of an array
\* column, 1 for every other column
RECURSIVE ArrayWidths(_)
ArrayWidths(cs) ==
    IF cs = <<>> THEN 0
    ELSE (IF Head(cs).type = "DoubleArray" THEN Head(cs).size ELSE 1)
         + ArrayWidths(Tail(cs))

(* C22 as stated: the chunk size a handle holds is                         *)
(* max(floor(16777216 / (8 * S)), 1), S being the sum over the columns of  *)
(* the schema of the width of an array column and 1 for any other column;  *)
(* it is at least 1.                                                       *)
C22_ChunkSize ==
    (ft.table /\ ft.chunk_size # 0) =>
        LET q == MaxMessageBytes \div (8 * ArrayWidths(ft.cols))
        IN  /\ ft.chunk_size = IF q > 1 THEN q ELSE 1
            /\ ft.chunk_size >= 1


\* the literal the filter grammar writes for a value: a number as it is, a
\* string between double quotes
QuotedValue(v) == IF IsInt(v) THEN [num |-> v.int] ELSE [strlit |-> v.str]

\* one clause (col==literal) per value that is not None, in column order
RECURSIVE QuotedConditionsFrom(_, _, _)
QuotedConditionsFrom(names, meta, n) ==
    IF n > Len(meta) THEN <<>>
    ELSE (IF meta[n] # NoneV
          THEN <<[col |-> names[n], tok |-> QuotedValue(meta[n])]>>
          ELSE <<>>)
         \o QuotedConditionsFrom(names, meta, n + 1)

\* the last operation was a fetch that got as far as building its condition
FetchBuilt ==
    /\ lastOp.op = "fetch"
    /\ ft.table
    /\ Len(lastOp.meta) = Len(MetadataNames(ft))

(* C23 as stated: the condition fetch_by_metadata builds has, for each     *)
(* metadata column whose value is not None, the clause (col==v) with a     *)
(* string v written between double quotes, no clause for a None value, and *)
(* the clauses joined in column order.                                     *)
C23_FilterConstruction ==
    FetchBuilt =>
        FetchConditions(MetadataNames(ft), lastOp.meta) =
            QuotedConditionsFrom(MetadataNames(ft), lastOp.meta, 1)

\* row agrees with meta on every field of meta that is not None
AgreesWith(row, meta) ==
    \A i \in 1..Len(meta) : meta[i] = NoneV \/ row[i] = meta[i]

\* the rows of tbl that agree with meta, in table order
RECURSIVE RowsAgreeing(_, _)
RowsAgreeing(tbl, meta) ==
    IF tbl = <<>> THEN <<>>
    ELSE (IF AgreesWith(Head(tbl), meta) THEN <<Head(tbl)>> ELSE <<>>)
         \o RowsAgreeing(Tail(tbl), meta)

(* C24 as stated: fetch_by_metadata(meta) on an open table, with one entry *)
(* per metadata column, succeeds and returns one decoded row per table row *)
(* that agrees with meta on every field that is not None, in offset order  *)
(* (every row when all fields are None); a list of another length fails    *)
(* with a usage error and no remote call.                                  *)
C24_FetchByMetadata ==
    [][ (lastOp'.op = "fetch" /\ ft.table) =>
           IF Len(lastOp'.meta) = Len(MetadataNames(ft))
           THEN /\ lastOp'.outcome = "ok"
                /\ LET hit == RowsAgreeing(rows, lastOp'.meta)
                   IN  lastOp'.result =
                           [j \in 1..Len(hit) |->
                               FeatureRow(FeatureNames(ft), MetadataNames(ft),
                                          hit[j])]
           ELSE /\ lastOp'.outcome = "UsageError"
                /\ lastOp'.calls = <<>> ]_vars


----------------------------------------------------------------------------
(* SpecEvict: the cache of SpecLRU with values whose close() may raise      *)

\* c.insert(key, value) on an LRUClosableCache when close() of the evicted
\* value raises: remove_oldest has popped the entry and called v.close(),
\* the exception leaves remove_oldest and insert, and the two statements
\* after the eviction (counter += 1, cache[key] = ...) are not reached
LruInsertCloseFails(key) ==
    /\ closable
    /\ Evicts(lru, key)
    /\ nextVal <= MaxVals
    /\ lru' = LRURemoveOldest(lru)
    /\ closes' = CloseValues(closes, RemoveOldestClosed(lru, closable))
    /\ nextVal' = nextVal + 1
    /\ recency' = Tail(recency)
    /\ lruLast' = [op |-> "insert", key |-> key, ret |-> Miss,
                   closed |-> RemoveOldestClosed(lru, closable),
                   removed |-> <<lru.cache[OldestKey(lru)].v>>,
                   raised |-> TRUE]
    /\ UNCHANGED <<closable, overwritten, ckVars, rowVars, raceVars,
                   remoteVars, ftVars, mgrVars>>

EvictNext ==
    \/ \E k \in Keys : LruGet(k)
    \/ \E k \in Keys : LruInsert(k)
    \/ \E k \in Keys : LruInsertCloseFails(k)
    \/ LruRemoveOldest
    \/ LruClose

SpecEvict == LruInit /\ [][EvictNext]_vars

(* C25 as stated: an insert into an LRUClosableCache does not raise to its *)
(* caller, also when close() of the value it evicts fails, and the new key *)
(* is in the cache when it returns.                                        *)
C25_EvictionCloseHidden ==
    [][ lruLast'.op = "insert"
        => /\ ~lruLast'.raised
           /\ lruLast'.key \in DOMAIN lru'.cache ]_vars


----------------------------------------------------------------------------
(* SpecStore: the stores of a handle that stays open on a table its user    *)
(* owns, over every metadata key, both feature vectors and both values of   *)
(* replace                                                                  *)

StoreNext ==
    \E m \in WriteLists(headers), v \in FeatVecs, r \in BOOLEAN :
        Store(m, v, r)

SpecStore == DataInit /\ [][StoreNext]_vars

\* the positions (from 1) of the rows of tbl whose metadata are m
HitOffsets(tbl, m) ==
    {i \in 1..Len(tbl) : SubSeq(tbl[i], 1, Len(m)) = m}

SetMax(s) == CHOOSE x \in s : \A y \in s : y <= x

\* the addData and update calls among calls
WriteCalls(calls) ==
    {i \in 1..Len(calls) : calls[i] \in {"addData", "update"}}

(* C26: write path selection. A store that succeeds makes exactly one      *)
(* remote write call. With replace=True and a row whose metadata equal the *)
(* given ones it is an update of the row at the largest matching offset:   *)
(* the row count and every other row, matching or not, stay as they were.  *)
(* With replace=True and no match, and with replace=False, it is an        *)
(* addData of one row at the end; replace=False makes no getWhereList.     *)
C26_WritePath ==
    [][ (lastOp'.op = "store" /\ lastOp'.outcome = "ok")
        => LET m == lastOp'.meta
               new == m \o <<lastOp'.vals>>
               hits == HitOffsets(rows, m)
           IN  /\ Cardinality(WriteCalls(lastOp'.calls)) = 1
               /\ IF lastOp'.replace /\ hits # {}
                  THEN /\ "update" \in Range(lastOp'.calls)
                       /\ Len(rows') = Len(rows)
                       /\ \A i \in 1..Len(rows) :
                             rows'[i] = IF i = SetMax(hits) THEN new
                                        ELSE rows[i]
                  ELSE /\ "addData" \in Range(lastOp'.calls)
                       /\ rows' = Append(rows, new)
               /\ ~lastOp'.replace
                     => "getWhereList" \notin Range(lastOp'.calls) ]_vars

\* a store with replace=True found two rows with its metadata and updated
\* the later one; the earlier one still carries other feature values
C26_Witness ==
    /\ lastOp.op = "store"
    /\ lastOp.outcome = "ok"
    /\ lastOp.replace
    /\ "update" \in Range(lastOp.calls)
    /\ Len(rows) = 2
    /\ HitOffsets(rows, lastOp.meta) = {1, 2}
    /\ rows[2] = lastOp.meta \o <<lastOp.vals>>
    /\ rows[1] # rows[2]


----------------------------------------------------------------------------
(* Spec, continued: store_flush and the permission memo                     *)

(* C27: store_flush with k >= 1 buffered rows makes exactly one addData    *)
(* call, which appends the k rows in the order they were buffered, returns *)
(* k and clears the buffer; a store_flush that follows it at once returns  *)
(* 0, makes no write call and leaves the rows as they are.                 *)
C27_FlushOnce ==
    [][ /\ (lastOp'.op = "store_flush" /\ ft.table /\ PendingLen(ft) >= 1)
            => /\ lastOp'.outcome = "ok"
               /\ Cardinality(WriteCalls(lastOp'.calls)) = 1
               /\ "addData" \in Range(lastOp'.calls)
               /\ rows' = rows \o PendingRows(ft)
               /\ lastOp'.n = PendingLen(ft)
               /\ PendingLen(ft') = 0
        /\ (/\ lastOp'.op = "store_flush"
            /\ lastOp.op = "store_flush" /\ lastOp.outcome = "ok"
            /\ lastOp.n >= 1)
            => /\ lastOp'.outcome = "ok"
               /\ lastOp'.n = 0
               /\ WriteCalls(lastOp'.calls) = {}
               /\ rows' = rows ]_vars

\* a flush wrote two buffered rows with different feature values in one
\* addData call, in the order they were buffered, and emptied the buffer
C27_Witness ==
    /\ lastOp.op = "store_flush"
    /\ lastOp.outcome = "ok"
    /\ lastOp.n = 2
    /\ Cardinality(WriteCalls(lastOp.calls)) = 1
    /\ ft.table
    /\ PendingLen(ft) = 0
    /\ Len(rows) = 2
    /\ rows[1][Len(rows[1])] = <<30, 40>>
    /\ rows[2][Len(rows[2])] = <<10, 20>>


\* the permission round trips of an operation: its getOriginalFile calls,
\* less the one a delete that passed the check makes for itself
GuardCalls(o) ==
    Cardinality({i \in 1..Len(o.calls) : o.calls[i] = "getOriginalFile"})
        - (IF o.op = "delete" /\ o.outcome = "ok" THEN 1 ELSE 0)

(* C28: permission memoization. On an open handle a write operation        *)
(* (store, store_pending, store_flush, delete) makes one permission round  *)
(* trip when none was made since the handle was opened, and remembers the  *)
(* verdict; every later write operation makes none and gets the remembered *)
(* verdict, allow or deny. Only close (and the close inside a delete that  *)
(* went through) forgets the verdict.                                      *)
C28_PermissionMemo ==
    [][ /\ (lastOp'.op \in WriteOps /\ ft.table)
            => IF ft.editable = "None"
               THEN /\ GuardCalls(lastOp') = 1
                    /\ ft'.editable # "None"
                          \/ (lastOp'.op = "delete" /\ lastOp'.outcome = "ok")
               ELSE /\ GuardCalls(lastOp') = 0
                    /\ (lastOp'.outcome = "PermissionError")
                          <=> (ft.editable = "False")
                    /\ ft'.editable = ft.editable
                          \/ (lastOp'.op = "delete" /\ lastOp'.outcome = "ok")
        /\ (ft.editable # "None" /\ ft'.editable = "None")
            => lastOp'.op \in {"close", "delete"} ]_vars

\* a store_flush was refused from the remembered verdict, without a remote
\* call, on a handle whose earlier write had been refused
C28_Witness ==
    /\ lastOp.op = "store_flush"
    /\ lastOp.outcome = "PermissionError"
    /\ lastOp.calls = <<>>
    /\ ft.table
    /\ ft.editable = "False"


----------------------------------------------------------------------------
(* SpecData, continued: the condition of store(replace=True)                *)

\* the columns the clauses of a condition name
ClauseColumns(conds) == {conds[n].col : n \in 1..Len(conds)}

(* C29 as stated: the condition that store(meta, values, replace=True)     *)
(* builds to find the row to replace has no clause for a metadata column   *)
(* whose value is None, and one clause for each of the other columns.      *)
C29_StoreOmitsNone ==
    [][ (/\ lastOp'.op = "store"
         /\ lastOp'.replace
         /\ "getWhereList" \in Range(lastOp'.calls))
        => LET names == MetadataNames(ft)
               meta == lastOp'.meta
           IN  ClauseColumns(StoreConditions(names, meta)) =
                   {names[n] : n \in {i \in 1..Len(meta) : meta[i] # NoneV}}
      ]_vars


----------------------------------------------------------------------------
(* SpecRace: two clients, each with its own open handle on the same remote  *)
(* table, which its user owns. Each runs store(meta, values, replace=True); *)
(* the remote calls of the two stores interleave freely, one call per step. *)

MaxStores == 2      \* stores each writer runs

Writers == {1, 2}

\* the feature values a writer stores
WriterVals(w) == IF w = 1 THEN <<10, 20>> ELSE <<30, 40>>

\* a handle outside store(): editable is the memoized permission, done the
\* number of stores it has finished
IdleWriter(editable, done) ==
    [pc |-> "idle", meta |-> <<>>, n |-> 0, offset |-> -1,
     editable |-> editable, done |-> done]

\* a plausible bug: the write looks for the row again
WriteOffset_Requery(wr, hdrs, tbl) ==
    ReplaceOffset(GetWhereList(hdrs, tbl,
        StoreConditions([i \in 1..(Len(hdrs) - 1) |-> hdrs[i].name],
                        wr.meta)))

\* store: the offset the write uses is the local variable set from the
\* getWhereList result, whatever the table holds by then
WriteOffset(wr, hdrs, tbl) == wr.offset

RaceInit ==
    /\ LruIdle
    /\ CkIdle
    /\ RowIdle
    /\ MgrIdle
    /\ TableIdle
    /\ writers = [w \in Writers |-> IdleWriter("None", 0)]

\* store up to its first table call: the permission check, the length
\* check, then self.table.getNumberOfRows()
RaceBegin(w, meta) ==
    LET wr == writers[w]
        pre == OwnsTable([table |-> TRUE, editable |-> wr.editable],
                         userId, fileOwner, aclEdit)
    IN  /\ wr.pc = "idle"
        /\ wr.done < MaxStores
        /\ pre.outcome = "ok"
        /\ Len(meta) = Len(headers) - 1
        /\ writers' = [writers EXCEPT ![w] =
                          [wr EXCEPT !.pc = "counted", !.meta = meta,
                                     !.n = Len(rows),
                                     !.editable = pre.editable]]
        /\ UNCHANGED <<remoteVars, ftVars, lruVars, ckVars, rowVars, mgrVars>>

\* store: offsets = table.getWhereList(conditions, {}, 0, n, 0);
\* offset = max(offsets) if there are any
RaceQuery(w) ==
    LET wr == writers[w]
        names == [i \in 1..(Len(headers) - 1) |-> headers[i].name]
        offsets == GetWhereList(headers, SubSeq(rows, 1, wr.n),
                                StoreConditions(names, wr.meta))
    IN  /\ wr.pc = "counted"
        /\ writers' = [writers EXCEPT ![w] =
                          [wr EXCEPT !.pc = "queried",
                                     !.offset = ReplaceOffset(offsets)]]
        /\ UNCHANGED <<remoteVars, ftVars, lruVars, ckVars, rowVars, mgrVars>>

\* store: table.update(...) if offset > -1, else table.addData(cols)
RaceWrite(w) ==
    LET wr == writers[w]
        data == StoreCols(wr.meta, WriterVals(w))
        offset == WriteOffset(wr, headers, rows)
    IN  /\ wr.pc = "queried"
        /\ rows' = IF offset > -1 THEN Update(rows, offset, data)
                   ELSE AddData(rows, data)
        /\ writers' = [writers EXCEPT ![w] =
                          IdleWriter(wr.editable, wr.done + 1)]
        /\ UNCHANGED <<headers, fileExists, fileOwner, aclEdit, anns, ftVars,
                       lruVars, ckVars, rowVars, mgrVars>>

RaceNext ==
    \/ \E w \in Writers, m \in MetaKeys(headers) : RaceBegin(w, m)
    \/ \E w \in Writers : RaceQuery(w)
    \/ \E w \in Writers : RaceWrite(w)

SpecRace == RaceInit /\ [][RaceNext]_vars

\* the step is the write call of writer w
WriteStepOf(w) == writers[w].pc = "queried" /\ writers'[w].pc = "idle"

(* C30: the accepted race. The write of a store(K, v, replace=True) whose  *)
(* query found no row for K appends a row, whatever the table holds by     *)
(* then: when both writers have queried a table without a row for K before *)
(* either writes, the first write appends, the second writer's query       *)
(* result stays as it was, and its write appends too, so that two rows for *)
(* K are left. A write whose query found a row updates that row.           *)
C30_AcceptedRace ==
    [][ \A w \in Writers :
          WriteStepOf(w)
          => LET wr == writers[w]
                 new == wr.meta \o <<WriterVals(w)>>
             IN  /\ IF wr.offset = -1
                    THEN rows' = Append(rows, new)
                    ELSE rows' = [rows EXCEPT ![wr.offset + 1] = new]
                 /\ writers'[3 - w] = writers[3 - w] ]_vars

\* each writer has run one store for the same key on the empty table and
\* the table holds two rows for the key, one from each writer: neither
\* query saw the other writer's row
C30_Witness ==
    /\ writers[1].done = 1 /\ writers[1].pc = "idle"
    /\ writers[2].done = 1 /\ writers[2].pc = "idle"
    /\ Len(rows) = 2
    /\ SubSeq(rows[1], 1, 2) = SubSeq(rows[2], 1, 2)
    /\ rows[1][3] # rows[2][3]

----------------------------------------------------------------------------
(* SpecKey: a handle that stays open on an initially empty table its user   *)
(* owns; every write is a store(key, values, replace=True), issued one      *)
(* after the other, and the table is read in between                        *)

KeyNext ==
    \/ \E m \in MetaKeys(headers), v \in FeatVecs : Store(m, v, TRUE)
    \/ \E m \in MetaLists(headers) : Fetch(m)

SpecKey == DataInit /\ [][KeyNext]_vars

\* the metadata of a table row
KeyOf(hdrs, row) == SubSeq(row, 1, Len(hdrs) - 1)

(* C31: composite-key invariant. When every write to an initially empty    *)
(* table is a sequential store with replace=True and no None, the table    *)
(* never holds two rows with the same metadata; a store that returns       *)
(* leaves, for its metadata, exactly one row, which carries the values it  *)
(* was given, and leaves the row of every other metadata tuple as it was.  *)
C31_CompositeKey ==
    [][ /\ \A k \in MetaKeys(headers) :
              Cardinality(HitOffsets(rows', k)) <= 1
        /\ (lastOp'.op = "store" /\ lastOp'.outcome = "ok")
            => /\ RowsWithKey(rows', lastOp'.meta) =
                      << lastOp'.meta \o <<lastOp'.vals>> >>
               /\ \A k \in MetaKeys(headers) \ {lastOp'.meta} :
                      RowsWithKey(rows', k) = RowsWithKey(rows, k)
        /\ lastOp'.op # "store" => rows' = rows ]_vars

\* the table holds one row for each of two keys, and the store that came
\* last overwrote the values of the first row
C31_Witness ==
    /\ lastOp.op = "store"
    /\ lastOp.outcome = "ok"
    /\ "update" \in Range(lastOp.calls)
    /\ Len(rows) = 2
    /\ HitOffsets(rows, lastOp.meta) = {1}
    /\ KeyOf(headers, rows[2]) # lastOp.meta
    /\ rows[1] = lastOp.meta \o <<lastOp.vals>>
    /\ rows[1][3] # rows[2][3]

----------------------------------------------------------------------------
(* SpecMgr, continued: the handles the manager closes, keeps and replaces   *)

\* the handles that are open before the step and closed after it
ShutByStep ==
    {i \in 1..Len(handles) : handles[i].ft.table /\ ~handles'[i].ft.table}

\* the keys of the cache entries accessed least recently
LeastRecent(c) ==
    {k \in DOMAIN c.cache :
        \A j \in DOMAIN c.cache : c.cache[k].c <= c.cache[j].c}

CachedHandles(c) == {c.cache[k].v : k \in DOMAIN c.cache}

\* the handles the manager constructed that have an open table
OpenHandles(hs) == {i \in 1..Len(hs) : hs[i].ft.table}

(* C33: no open handle escapes the manager. After every step every handle  *)
(* the manager constructed that has an open table is held in the cache, so *)
(* that at most maxsize handles are open; and when a manager step puts     *)
(* another handle under a key the cache already holds, the handle it       *)
(* replaces is closed.                                                     *)
C33_NoOpenHandleEscapes ==
    [][ /\ OpenHandles(handles') \subseteq CachedHandles(fss')
        /\ Cardinality(OpenHandles(handles')) <= fss'.maxsize
        /\ \A k \in DOMAIN fss.cache \cap DOMAIN fss'.cache :
              fss'.cache[k].v # fss.cache[k].v
                  => ~handles[fss.cache[k].v].ft.table ]_vars

\* a create put its new open handle under a key whose cached handle had been
\* closed; the replaced handle is out of the cache and closed
C33_Witness ==
    /\ mgrLast.op = "create"
    /\ mgrLast.outcome = "ok"
    /\ mgrLast.cached = "closed"
    /\ fss.cache[<<mgrLast.name, mgrLast.owner>>].v = mgrLast.ret
    /\ OpenHandles(handles) = {mgrLast.ret}
    /\ \E i \in 1..(mgrLast.ret - 1) :
          /\ handles[i].file.name = mgrLast.name
          /\ i \notin CachedHandles(fss)

----------------------------------------------------------------------------
(* SpecLRU, continued: the values an insert replaces, and the capacity      *)

----------------------------------------------------------------------------
(* SpecMgrOwn: the manager of SpecMgr for a user who already owns the table *)
(* "fs1", left by an earlier session; what a create that fails leaves       *)
(* behind                                                                   *)

MgrOwnInit ==
    /\ LruIdle
    /\ CkIdle
    /\ RowIdle
    /\ RaceIdle
    /\ TableIdle
    /\ files = {TableFile(0, "fs1", userId)}
    /\ nextFile = 1
    /\ \E n \in 1..MaxSize : fss = LRUCacheInit(n)
    /\ handles = <<>>
    /\ mgrLast = MgrNoOp

SpecMgrOwn == MgrOwnInit /\ [][MgrNext]_vars

(* C35: a create that fails with too-many-matches changes the cache. When  *)
(* the cache held an open handle under (name, caller id), that entry       *)
(* becomes the most recently used one and nothing else changes; otherwise  *)
(* the create has opened the existing table in a new handle and put it     *)
(* under (name, caller id), and when that key was new to a full cache the  *)
(* least recently used entry was evicted and its handle closed.            *)
C35_FailedCreateTouchesCache ==
    [][ (mgrLast'.op = "create" /\ mgrLast'.outcome = "TooManyTables")
        => /\ mgrLast'.owner = userId
           /\ IF HitOpen
              THEN /\ SameEntries
                   /\ handles' = handles
                   /\ fss'.cache[StepKey].c = fss.counter + 1
                   /\ \A j \in DOMAIN fss'.cache \ {StepKey} :
                         fss'.cache[j].c < fss'.cache[StepKey].c
              ELSE /\ Len(handles') = Len(handles) + 1
                   /\ handles'[Len(handles')].ft.table
                   /\ handles'[Len(handles')].file \in files
                   /\ handles'[Len(handles')].file.name = mgrLast'.name
                   /\ handles'[Len(handles')].file.owner = userId
                   /\ StepKey \in DOMAIN fss'.cache
                   /\ fss'.cache[StepKey].v = Len(handles')
                   /\ (/\ StepKey \notin DOMAIN fss.cache
                       /\ LRULen(fss) = fss.maxsize)
                       => \E k \in LeastRecent(fss) :
                             /\ k \notin DOMAIN fss'.cache
                             /\ mgrLast'.closed = <<fss.cache[k].v>>
                             /\ ~handles'[fss.cache[k].v].ft.table ]_vars

\* a create failed with too-many-matches after it had opened the caller's
\* table, cached the handle under a key the full cache did not hold and
\* closed the handle it evicted
C35_Witness ==
    /\ mgrLast.op = "create"
    /\ mgrLast.outcome = "TooManyTables"
    /\ mgrLast.cached = "absent"
    /\ Len(mgrLast.closed) = 1
    /\ <<mgrLast.name, userId>> \in DOMAIN fss.cache
    /\ handles[fss.cache[<<mgrLast.name, userId>>].v].ft.table
    /\ mgrLast.closed[1] \notin CachedHandles(fss)

----------------------------------------------------------------------------
(* SpecOpen, continued: the handle after a creation that failed             *)

\* the operation o is an open_or_create_table that failed at initialize
FailedAtInitialize(o) ==
    /\ o.op = "open_or_create"
    /\ "initialize" \in Range(o.calls)
    /\ o.outcome # "ok"

(* C36 as stated: table creation is atomic for the caller. After an        *)
(* open_or_create_table with schema arguments that failed at the remote    *)
(* initialize step the handle holds no table reference, a get_table that   *)
(* follows fails with a usage error, and an open_or_create_table that      *)
(* follows is not refused as already open (it gets as far as the lookup).  *)
C36_CreateAtomic ==
    [][ /\ FailedAtInitialize(lastOp') => ~ft'.table
        /\ (FailedAtInitialize(lastOp) /\ lastOp'.op = "get_table")
            => lastOp'.outcome = "UsageError"
        /\ (FailedAtInitialize(lastOp) /\ lastOp'.op = "open_or_create")
            => "findAllByQuery" \in Range(lastOp'.calls) ]_vars

----------------------------------------------------------------------------
(* Spec, continued: the write buffer across close and reopen                *)

(* C37: close() keeps the rows buffered by store_pending. A close and an   *)
(* open leave the buffer as it is, and the store_flush that follows the    *)
(* reopening of a handle with k >= 1 buffered rows appends those rows and  *)
(* returns k.                                                              *)
C37_BufferSurvivesClose ==
    [][ /\ lastOp'.op \in {"close", "open"}
            => ft'.pendingcols = ft.pendingcols
        /\ (/\ lastOp'.op = "store_flush"
            /\ lastOp.op = "open" /\ lastOp.outcome = "ok"
            /\ PendingLen(ft) >= 1)
            => /\ lastOp'.outcome = "ok"
               /\ rows' = rows \o PendingRows(ft)
               /\ lastOp'.n = PendingLen(ft) ]_vars

\* a flush wrote a buffered row although no store_pending had run since the
\* handle was opened: the flush itself made the permission round trip, so
\* the row was buffered before the close
C37_Witness ==
    /\ lastOp.op = "store_flush"
    /\ lastOp.outcome = "ok"
    /\ lastOp.n >= 1
    /\ lastOp.calls = <<"getOriginalFile", "addData">>
    /\ Len(rows) >= lastOp.n
    /\ ft.table

(* SpecOpen, continued: the feature names packed into the array column     *)

\* name.split(','): the pieces between the commas, empty pieces included
RECURSIVE SplitComma(_)
SplitComma(name) ==
    IF \A i \in 1..Len(name) : name[i] # ","
    THEN <<name>>
    ELSE LET i == CHOOSE k \in 1..Len(name) :
                      /\ name[k] = ","
                      /\ \A j \in 1..(k - 1) : name[j] # ","
         IN  <<SubSeq(name, 1, i - 1)>>
                 \o SplitComma(SubSeq(name, i + 1, Len(name)))

\* FeatureTable.feature_names on a handle with the columns cols
PackedFeatureNames(cols) == SplitComma(cols[Len(cols)].name)

(* C38: the feature names round trip through the packed column. An         *)
(* open_or_create_table that succeeds leaves a handle whose feature_names  *)
(* are as many as the width of the array column; after a creation they are *)
(* the coldesc that was given, in its order, and the file that is stored   *)
(* holds the same columns; after a reopening they are the names packed in  *)
(* the stored file; and no step changes the columns of a stored file.      *)
C38_NamesRoundTrip ==
    [][ /\ \A f \in files : \E g \in files' : g.id = f.id /\ g.cols = f.cols
        /\ (lastOp'.op = "open_or_create" /\ lastOp'.outcome = "ok")
             => /\ Len(PackedFeatureNames(ft'.cols))
                     = ft'.cols[Len(ft'.cols)].size
                /\ lastOp'.vals # <<>>
                     => /\ PackedFeatureNames(ft'.cols) = lastOp'.vals
                        /\ \E g \in files' : /\ g.id = lastOp'.result[1]
                                             /\ g.cols = ft'.cols
                /\ lastOp'.vals = <<>>
                     => \E f \in files : /\ f.id = lastOp'.result[1]
                                         /\ f.cols = ft'.cols ]_vars

\* a table created here with a name that ends in a newline was closed and
\* reopened, and the handle reports the two names it was created with
C38_Witness ==
    /\ lastOp.op = "open_or_create" /\ lastOp.outcome = "ok"
    /\ lastOp.vals = <<>> /\ lastOp.meta = <<>>
    /\ lastOp.result[1] >= 3
    /\ ft.table
    /\ PackedFeatureNames(ft.cols) = <<NmA, NmNl>>
    /\ ft.cols[Len(ft.cols)].size = 2

(* SpecLRU, continued: the capacity                                        *)

(* C39: bounded cache. A cache of capacity N >= 1, plain or closable,      *)
(* holds at most N entries after any sequence of get, insert,              *)
(* remove_oldest and close.                                                *)
C39_BoundedCache ==
    lru.maxsize >= 1 => Cardinality(DOMAIN lru.cache) <= lru.maxsize

\* an insert into a full cache of capacity two or more put one entry out,
\* and the cache is full again
C39_Witness ==
    /\ lruLast.op = "insert"
    /\ lruLast.removed # <<>>
    /\ lru.maxsize >= 2
    /\ LRULen(lru) = lru.maxsize
    /\ lruLast.key \in DOMAIN lru.cache

(* SpecMgrOwn, continued: the remote close of a handle                      *)

(* C40: close is idempotent toward the remote service. Every handle the    *)
(* manager constructs opens one remote table; however the handle comes to  *)
(* be closed (by the caller's close or delete, by eviction, by the         *)
(* manager's close, or by several of them in turn), close() is called on   *)
(* its remote table at most once: never while the handle is open, once     *)
(* when it is closed.                                                      *)
C40_RemoteCloseOnce ==
    \A i \in 1..Len(handles) :
        /\ handles[i].remoteCloses <= 1
        /\ handles[i].ft.table <=> handles[i].remoteCloses = 0

\* the caller deleted the table through the only handle there is, which
\* closed it; the manager's close() then called close() on that handle
\* again, and the remote table was still closed once
C40_Witness ==
    /\ Len(handles) = 1
    /\ handles[1].file \notin files
    /\ mgrLast.op = "close"
    /\ mgrLast.closed = <<1>>
    /\ ~handles[1].ft.table
    /\ handles[1].remoteCloses = 1

====
